---- MODULE Spec2Model ----
(***************************************************************************)
(* Share4Life: emergency blood request escalation.                         *)
(*                                                                         *)
(* State machine of the blood app: requests, donor responses, donations,   *)
(* the escalation scheduler (escalate_blood_requests), the ping dispatcher *)
(* (blood/realtime.py), the matcher (blood/matching.py) and the            *)
(* fulfilment step (BloodDonation.mark_verified).                          *)
(*                                                                         *)
(* Time is counted in whole minutes.  A nullable column is modelled as a   *)
(* sequence of length 0 (NULL) or 1.  A free-text city is a sequence of    *)
(* tokens: words (any case) and the separators "," "/" ";" "|"; white      *)
(* space is what separates two tokens.  Coordinates are points of a line   *)
(* measured in km, and the great-circle distance is the distance on that   *)
(* line.                                                                   *)
(***************************************************************************)
EXTENDS Integers, FiniteSets, Sequences, TLC

\* ------------------------------------------------------------------ bounds

\* Minutes of fine-grained time the environment lets pass (one-minute steps).
MaxClock == 4

\* Minutes that pass while the dispatcher is watched (one-minute steps).
MaxPingClock == 9

\* Executions of _send_ping each of the two concurrent callers starts.
MaxRuns == 2

\* Minutes that pass while two executions of _send_ping interleave.
MaxRaceClock == 3

\* Minutes that pass after a request is posted while the matcher is watched.
MaxMatchMinutes == 2

\* Minutes that pass around the end of a donor's 90 days.
MaxEligibleMinutes == 3

\* Tokens (words and separators) of a city a form submits.
MaxCityLen == 3

\* Minutes that pass while runs over two requests are watched.
MaxBatchClock == 1

\* Minutes that pass while two runs of the escalation command overlap.
MaxOverlapClock == 2

\* Minutes that pass while the PingLog rows are compared with the pushes.
MaxLogClock == 3

\* Minutes that pass after the escalation window of a request has passed.
MaxLateMinutes == 2

\* Minutes that pass while the views act on a request under escalation.
MaxFrameClock == 1

\* Minutes that pass until and while a run is in its LOOP branch.
MaxLoopClock == 6

\* ------------------------------------------------------- program constants

CooldownSeconds == 180
MaxRepings == 3
MaxMinutes == 60
LoopIntervalMinutes == 1
StageMinutes == 1
EligibilityDays == 90
BasePoints == 150
PointsPerUnit == 20
Radius5 == 5
Radius10 == 10

\* ------------------------------------------------------------ the universe

Requests == {1, 2}

\* the request the scenarios of a single request follow
Watched == {1}

\* BloodDonation.request is nullable: the key of the donations that belong to
\* no request
NoRequest == 0
DonationKeys == Requests \cup {NoRequest}
Donors == {"dA", "dB"}
Requester == "recipient"

Null == << >>
Some(x) == << x >>
Val(o) == o[1]

Stages == {"CITY", "RADIUS_5", "RADIUS_10", "ORG", "LOOP", "DONE"}

\* ----------------------------------------------------------- city normalizer

Separators == {",", "/", ";", "|"}

\* str.lower() on the words of the vocabulary
Lower(t) ==
    CASE t = "KTM" -> "ktm"
      [] t = "Kathmandu" -> "kathmandu"
      [] t = "Valley" -> "valley"
      [] t = "Asan" -> "asan"
      [] t = "Patan" -> "patan"
      [] t = "Lalitpur" -> "lalitpur"
      [] OTHER -> t

LowerAll(s) == [i \in 1..Len(s) |-> Lower(s[i])]

\* CITY_CANON with "ktm" sent to another alias instead of the canonical city
CityCanonChained ==
    [k \in { <<"ktm">>, <<"kathmandu">>, <<"kathmandu", "city">>,
             <<"kathmandu", "valley">>, <<"lalitpur">>, <<"patan">>,
             <<"lalitpur", "city">>, <<"bhaktapur">>, <<"bkt">> } |->
        IF k = <<"ktm">> THEN <<"kathmandu", "valley">>
        ELSE IF k \in { <<"kathmandu">>, <<"kathmandu", "city">>,
                        <<"kathmandu", "valley">> } THEN <<"kathmandu">>
        ELSE IF k \in { <<"lalitpur">>, <<"patan">>, <<"lalitpur", "city">> }
             THEN <<"lalitpur">>
        ELSE <<"bhaktapur">>]

\* CITY_CANON: key -> canonical city
CITY_CANON ==
    [k \in { <<"ktm">>, <<"kathmandu">>, <<"kathmandu", "city">>,
             <<"kathmandu", "valley">>, <<"lalitpur">>, <<"patan">>,
             <<"lalitpur", "city">>, <<"bhaktapur">>, <<"bkt">> } |->
        IF k \in { <<"ktm">>, <<"kathmandu">>, <<"kathmandu", "city">>,
                   <<"kathmandu", "valley">> } THEN <<"kathmandu">>
        ELSE IF k \in { <<"lalitpur">>, <<"patan">>, <<"lalitpur", "city">> }
             THEN <<"lalitpur">>
        ELSE <<"bhaktapur">>]

\* CANON_ALIASES with "patan" listed under kathmandu
CanonAliasesMixed ==
    [c \in { <<"kathmandu">>, <<"lalitpur">>, <<"bhaktapur">> } |->
        IF c = <<"kathmandu">>
        THEN { <<"kathmandu">>, <<"ktm">>, <<"patan">>, <<"kathmandu", "valley">> }
        ELSE IF c = <<"lalitpur">>
             THEN { <<"lalitpur">>, <<"patan">>, <<"lalitpur", "city">> }
        ELSE { <<"bhaktapur">>, <<"bkt">> }]

\* CANON_ALIASES: canonical city -> its alias strings
CANON_ALIASES ==
    [c \in { <<"kathmandu">>, <<"lalitpur">>, <<"bhaktapur">> } |->
        IF c = <<"kathmandu">>
        THEN { <<"kathmandu">>, <<"ktm">>, <<"kathmandu", "city">>,
               <<"kathmandu", "valley">> }
        ELSE IF c = <<"lalitpur">>
             THEN { <<"lalitpur">>, <<"patan">>, <<"lalitpur", "city">> }
        ELSE { <<"bhaktapur">>, <<"bkt">> }]

\* raw.replace("|", ",").replace("/", ",").replace(";", ",") after lower()
NormalizeRaw(value) ==
    [i \in 1..Len(value) |->
        IF value[i] \in Separators THEN "," ELSE Lower(value[i])]

\* [p.strip() for p in raw.split(",") if p.strip()]
RECURSIVE SplitParts(_)
SplitParts(raw) ==
    IF raw = << >> THEN << >>
    ELSE LET idx == { i \in 1..Len(raw) : raw[i] = "," }
         IN  IF idx = {} THEN << raw >>
             ELSE LET i == CHOOSE j \in idx : \A k \in idx : j <= k
                      head == SubSeq(raw, 1, i - 1)
                      rest == SplitParts(SubSeq(raw, i + 1, Len(raw)))
                  IN  IF head = << >> THEN rest ELSE << head >> \o rest

\* what one part contributes to the reversed scan: the part itself, else its
\* last word, else nothing
PartCanon(p) ==
    IF p \in DOMAIN CITY_CANON THEN Some(CITY_CANON[p])
    ELSE IF << p[Len(p)] >> \in DOMAIN CITY_CANON
         THEN Some(CITY_CANON[<< p[Len(p)] >>])
         ELSE Null

RECURSIVE ScanReversed(_, _)
ScanReversed(parts, i) ==
    IF i = 0 THEN Null
    ELSE IF PartCanon(parts[i]) # Null THEN PartCanon(parts[i])
         ELSE ScanReversed(parts, i - 1)

\* canonical_city(value)
canonical_city(value) ==
    LET raw == NormalizeRaw(value)
        parts == SplitParts(raw)
        hit == ScanReversed(parts, Len(parts))
        last == << raw[Len(raw)] >>
    IN  IF raw = << >> THEN << >>
        ELSE IF raw \in DOMAIN CITY_CANON THEN CITY_CANON[raw]
        ELSE IF hit # Null THEN Val(hit)
        ELSE IF last \in DOMAIN CITY_CANON THEN CITY_CANON[last]
        ELSE raw

\* city_aliases(value)
city_aliases(value) ==
    LET canon == canonical_city(value)
    IN  IF canon \in DOMAIN CANON_ALIASES THEN CANON_ALIASES[canon] ELSE {canon}

\* ------------------------------------------------------------------ state

VARIABLES
    clock,      \* timezone.now(), in minutes
    req,        \* PublicBloodRequest rows, by id
    esc,        \* BloodEscalationState rows, by request
    pingLog,    \* BloodDonorPingLog rows, by request and donor
    response,   \* DonorResponse rows, by request and donor: "NONE" when absent
    donation,   \* BloodDonation rows, by request (or NoRequest) and donor
    points,     \* UserProfile.points, by donor
    hist,       \* history: what has been sent, by request and donor
    schedNotes, \* history: notifications the scheduler created, by request and user
    lastStep,   \* history: "run" after a scheduler run, "failed" after one that
                \* raised or crashed, "other" after anything else
    disp,       \* the executions of _send_ping in flight, by caller
    staff,      \* the verification requests in flight, by staff session
    profile,    \* CustomUser / UserProfile rows of the donors, by donor
    sched,      \* the iterations of the escalation command in flight, by run
    creating    \* the executions of donation_create_view in flight, by session

vars == << clock, req, esc, pingLog, response, donation, points, hist, schedNotes,
           lastStep, disp, staff, profile, sched, creating >>

\* what a request that runs as one step leaves alone: the executions in
\* flight and the donors' profiles
inFlight == << disp, staff, profile, sched, creating >>

\* ------------------------------------------------- donors and organizations

\* accounts.CustomUser / UserProfile rows of the two donors of the escalation
\* scenarios
DonorProfile ==
    [d \in Donors |->
        IF d = "dA"
        THEN [city |-> << "KTM" >>, pos |-> Some(0), blood_group |-> "O-",
              is_donor |-> TRUE, is_active |-> TRUE]
        ELSE [city |-> << "Patan" >>, pos |-> Some(8), blood_group |-> "A+",
              is_donor |-> TRUE, is_active |-> TRUE]]

\* hospitals.Organization rows
Organizations ==
    { [id |-> "orgK", status |-> "APPROVED", city |-> << "kathmandu" >>],
      [id |-> "orgP", status |-> "PENDING", city |-> << "Kathmandu" >>],
      [id |-> "orgL", status |-> "APPROVED", city |-> << "lalitpur" >>] }

\* hospitals.OrganizationMembership rows
Memberships ==
    { [user |-> "m1", org |-> "orgK", is_active |-> TRUE, role |-> "ADMIN"],
      [user |-> "m2", org |-> "orgK", is_active |-> FALSE, role |-> "STAFF"],
      [user |-> "m3", org |-> "orgP", is_active |-> TRUE, role |-> "VERIFIER"],
      [user |-> "m4", org |-> "orgL", is_active |-> TRUE, role |-> "STAFF"] }

Members == { m.user : m \in Memberships }
NotifiedUsers == { Requester } \cup Members

\* ------------------------------------------------------------ eligibility

MinutesPerDay == 24 * 60

\* the latest of a set of times, or Null
Latest(times) ==
    IF times = {} THEN Null
    ELSE Some(CHOOSE t \in times : \A u \in times : u <= t)

\* last_verified_donation(user).donated_at, or Null
LastVerifiedAt(don, d) ==
    Latest({ don[r][d].donated_at :
               r \in { x \in DOMAIN don : don[x][d].exists
                                          /\ don[x][d].status = "VERIFIED" } })

\* last.donated_at + timedelta(days=ELIGIBILITY_DAYS), or None without a last
PlusEligibilityDays(last) ==
    IF last = Null THEN Null
    ELSE Some(Val(last) + EligibilityDays * MinutesPerDay)

\* next_eligible_datetime(user)
next_eligible_datetime(don, d) == PlusEligibilityDays(LastVerifiedAt(don, d))

\* ReachedAt that wants the instant to be past
ReachedAfter(nxt, now) == IF nxt = Null THEN TRUE ELSE now > Val(nxt)

\* not nxt or timezone.now() >= nxt
ReachedAt(nxt, now) == IF nxt = Null THEN TRUE ELSE now >= Val(nxt)

\* is_eligible(user)
is_eligible(don, d, now) == ReachedAt(next_eligible_datetime(don, d), now)

\* ---------------------------------------------------------------- matching

COMPATIBLE_DONORS ==
    [g \in {"O-", "O+", "A-", "A+", "B-", "B+", "AB-", "AB+"} |->
        CASE g = "O-" -> {"O-"}
          [] g = "O+" -> {"O-", "O+"}
          [] g = "A-" -> {"O-", "A-"}
          [] g = "A+" -> {"O-", "O+", "A-", "A+"}
          [] g = "B-" -> {"O-", "B-"}
          [] g = "B+" -> {"O-", "O+", "B-", "B+"}
          [] g = "AB-" -> {"O-", "A-", "B-", "AB-"}
          [] g = "AB+" -> {"O-", "O+", "A-", "A+", "B-", "B+", "AB-", "AB+"}]

\* blood_group_allowed that lets every donor group through
BloodGroupAllowedAny(req_blood_group, donor_blood_group) == TRUE

\* blood_group_allowed(req_blood_group, donor_blood_group)
blood_group_allowed(req_blood_group, donor_blood_group) ==
    /\ req_blood_group \in DOMAIN COMPATIBLE_DONORS
    /\ donor_blood_group \in COMPATIBLE_DONORS[req_blood_group]

\* eligible_donors_queryset()
eligible_donors_queryset ==
    { d \in Donors : profile[d].is_active /\ profile[d].is_donor }

\* haversine_km on the km line
haversine_km(p, q) == IF p >= q THEN p - q ELSE q - p

\* the rest of match_city once aliases = city_aliases(req.location_city) is known:
\* the profile__city__iexact filter over the non-empty aliases, then the loop
CityMatches(aliases, rq, don, now) ==
    { d \in eligible_donors_queryset :
        /\ profile[d].city # << >>
        /\ (\E a \in aliases : a # << >>)
              => (\E a \in aliases : a # << >> /\ LowerAll(profile[d].city) = a)
        /\ \E a \in aliases : canonical_city(profile[d].city) = canonical_city(a)
        /\ is_eligible(don, d, now)
        /\ blood_group_allowed(rq.blood_group, profile[d].blood_group) }

\* match_city(req): the donors, as a set
match_city(rq, don, now) ==
    IF rq.location_city = << >> THEN {}
    ELSE CityMatches(city_aliases(rq.location_city), rq, don, now)

\* match_radius that leaves out the donors at exactly the radius
MatchRadiusBelow(rq, radius_km, don, now) ==
    IF rq.pos = Null THEN {}
    ELSE { d \in eligible_donors_queryset :
             /\ is_eligible(don, d, now)
             /\ blood_group_allowed(rq.blood_group, profile[d].blood_group)
             /\ profile[d].pos # Null
             /\ haversine_km(Val(rq.pos), Val(profile[d].pos)) < radius_km }

\* match_radius(req, radius_km): the donors, as a set
match_radius(rq, radius_km, don, now) ==
    IF rq.pos = Null THEN {}
    ELSE { d \in eligible_donors_queryset :
             /\ is_eligible(don, d, now)
             /\ blood_group_allowed(rq.blood_group, profile[d].blood_group)
             /\ profile[d].pos # Null
             /\ haversine_km(Val(rq.pos), Val(profile[d].pos)) <= radius_km }

\* FirstNonEmpty that adds the next tier to the donors found
FirstNonEmptyJoined(donors, others) == donors \cup others

\* "if donors: return donors" between the tiers of match_city_then_radius
FirstNonEmpty(donors, others) == IF donors # {} THEN donors ELSE others

\* match_city_then_radius(req)
match_city_then_radius(rq, don, now) ==
    FirstNonEmpty(match_city(rq, don, now),
                  FirstNonEmpty(match_radius(rq, Radius5, don, now),
                                match_radius(rq, Radius10, don, now)))

\* ---------------------------------------------------------- ping dispatcher

NoLog == [exists |-> FALSE, stage |-> "", last_ping_at |-> Null, ping_count |-> 0]
NoHist == [pushes |-> 0, last_push_at |-> Null, last_stage |-> "", notifs |-> 0]

\* HasResponded that counts an ACCEPTED response only
HasRespondedOnlyAccepted(resp, d) == resp[d] = "ACCEPTED"

\* u.id in responded_ids
HasResponded(resp, d) == resp[d] # "NONE"

\* CooldownBlocks with the check left out
CooldownBlocksNever(log, now) == FALSE

\* CooldownBlocks that lets a ping of the same instant through
CooldownBlocksLaterOnly(log, now) ==
    /\ log.last_ping_at # Null
    /\ now > Val(log.last_ping_at)
    /\ (now - Val(log.last_ping_at)) * 60 < CooldownSeconds

\* the cooldown check on an existing PingLog row
CooldownBlocks(log, now) ==
    /\ log.last_ping_at # Null
    /\ (now - Val(log.last_ping_at)) * 60 < CooldownSeconds

\* MaxRepingsBlocks that lets one ping too many through
MaxRepingsBlocksAbove(log) == log.ping_count > MaxRepings

\* the max repings check on an existing PingLog row
MaxRepingsBlocks(log) == log.ping_count >= MaxRepings

\* the donors of one _send_ping call that get the push
PingedDonors(logs, resp, donors, now) ==
    { d \in donors :
        /\ ~HasResponded(resp, d)
        /\ logs[d].exists => (~CooldownBlocks(logs[d], now) /\ ~MaxRepingsBlocks(logs[d])) }

\* UpsertLog that starts the count again on a later ping
UpsertLogRestarts(log, stage, now) ==
    [exists |-> TRUE, stage |-> stage, last_ping_at |-> Some(now), ping_count |-> 1]

\* get_or_create + update of the PingLog row of a pinged donor
UpsertLog(log, stage, now) ==
    IF log.exists
    THEN [log EXCEPT !.stage = stage, !.last_ping_at = Some(now),
                     !.ping_count = log.ping_count + 1]
    ELSE [exists |-> TRUE, stage |-> stage, last_ping_at |-> Some(now), ping_count |-> 1]

\* ShouldNotify that does not look at created
ShouldNotifyAlways(created) == TRUE

\* "if created:" the persistent notification goes with the first ping only
ShouldNotify(created) == created

\* A dispatch works on the rows of one request:
\*   logs: its PingLog rows, h: its history, sent: the last call's return value
\* the loop body of _send_ping for the donors that pass the checks
PingAll(st, pinged, stage, now) ==
    [logs |-> [d \in Donors |->
                 IF d \in pinged THEN UpsertLog(st.logs[d], stage, now)
                 ELSE st.logs[d]],
     h |-> [d \in Donors |->
              IF d \in pinged
              THEN [pushes |-> st.h[d].pushes + 1,
                    last_push_at |-> Some(now),
                    last_stage |-> stage,
                    notifs |-> st.h[d].notifs
                               + (IF ShouldNotify(~st.logs[d].exists) THEN 1 ELSE 0)]
              ELSE st.h[d]],
     sent |-> Cardinality(pinged)]

\* _send_ping(req, donors, stage)
_send_ping(st, resp, donors, stage, now) ==
    PingAll(st, PingedDonors(st.logs, resp, donors, now), stage, now)

\* the donors push_ping_stage hands to _send_ping
StageDonors(rq, stage, don, now) ==
    IF stage = "CITY" THEN match_city(rq, don, now)
    ELSE match_radius(rq, IF stage = "RADIUS_5" THEN Radius5 ELSE Radius10, don, now)

\* push_ping_stage(req, stage)
push_ping_stage(st, rq, resp, don, stage, now) ==
    IF stage \in {"CITY", "RADIUS_5", "RADIUS_10"}
    THEN _send_ping(st, resp, StageDonors(rq, stage, don, now), stage, now)
    ELSE [st EXCEPT !.sent = 0]

\* ElseStage without "if n: return n": the next tier is pinged as well
ElseStageAlways(prev, rq, resp, don, stage, now) ==
    push_ping_stage(prev, rq, resp, don, stage, now)

\* "if n: return n", then the next tier of push_ping_to_donors
ElseStage(prev, rq, resp, don, stage, now) ==
    IF prev.sent # 0 THEN prev ELSE push_ping_stage(prev, rq, resp, don, stage, now)

\* push_ping_to_donors(req)
push_ping_to_donors(st, rq, resp, don, now) ==
    ElseStage(ElseStage(push_ping_stage(st, rq, resp, don, "CITY", now),
                        rq, resp, don, "RADIUS_5", now),
              rq, resp, don, "RADIUS_10", now)

\* ------------------------------------------------------ escalation scheduler

NoEsc == [exists |-> FALSE, stage |-> "CITY", next_run_at |-> Null,
          last_run_at |-> Null, is_done |-> FALSE]

NoNotes == [u \in NotifiedUsers |-> 0]

\* Selected without the is_emergency filter
SelectedAnyUrgency(rq) ==
    /\ rq.exists
    /\ rq.is_active
    /\ rq.status \in {"OPEN", "IN_PROGRESS"}
    /\ rq.verification_status # "REJECTED"

\* the queryset of Command.handle: the requests a run looks at
Selected(rq) ==
    /\ rq.exists
    /\ rq.is_emergency
    /\ rq.is_active
    /\ rq.status \in {"OPEN", "IN_PROGRESS"}
    /\ rq.verification_status # "REJECTED"

\* BloodEscalationState.objects.get_or_create(request=req, defaults=...)
GetOrCreateState(state, now) ==
    IF state.exists THEN state
    ELSE [exists |-> TRUE, stage |-> "CITY", next_run_at |-> Some(now),
          last_run_at |-> Null, is_done |-> FALSE]

\* NotDue with the test left out
NotDueIgnored(state, now) == FALSE

\* state.next_run_at and state.next_run_at > now
NotDue(state, now) == state.next_run_at # Null /\ Val(state.next_run_at) > now

\* ShouldStop without its first test: an ACCEPTED response does not stop the run
ShouldStopIgnoresAccepted(rq, resp, don) ==
    \/ \E d \in Donors : don[d].exists
    \/ ~rq.is_active
    \/ rq.status \in {"FULFILLED", "CANCELLED"}

\* accepted_exists or donation_exists or request closed
ShouldStop(rq, resp, don) ==
    \/ \E d \in Donors : resp[d] = "ACCEPTED"
    \/ \E d \in Donors : don[d].exists
    \/ ~rq.is_active
    \/ rq.status \in {"FULFILLED", "CANCELLED"}

\* TooOld with the test left out: no request is ever too old
TooOldNever(rq, now) == FALSE

\* TooOld with the window taken as hours
TooOldInHours(rq, now) == rq.created_at < now - MaxMinutes * 60

\* req.created_at < too_old_cutoff
TooOld(rq, now) == rq.created_at < now - MaxMinutes

\* Finished that sets the stage and leaves the flag and the schedule
FinishedStageOnly(state, now) ==
    [state EXCEPT !.stage = "DONE", !.last_run_at = Some(now)]

\* the DONE state both early exits save
Finished(state, now) ==
    [state EXCEPT !.stage = "DONE", !.is_done = TRUE,
                  !.last_run_at = Some(now), !.next_run_at = Null]

\* BloodEscalationState.schedule_next(minutes)
schedule_next(state, minutes, now) ==
    [state EXCEPT !.next_run_at = Some(now + minutes)]

\* _notify_user(user, ...): one more notification for a user, none for a guest
NotifyUser(notes, user) ==
    IF user = Null THEN notes
    ELSE [notes EXCEPT ![Val(user)] = notes[Val(user)] + 1]

\* the memberships _notify_orgs_in_city(city, ...) writes a notification for
OrgMembersInCity(city) ==
    IF city = << >> THEN {}
    ELSE { m \in Memberships :
             /\ \E o \in Organizations :
                  /\ o.status = "APPROVED"
                  /\ LowerAll(o.city) = LowerAll(city)
                  /\ o.id = m.org
             /\ m.is_active
             /\ m.role \in {"ADMIN", "VERIFIER", "STAFF"} }

\* _notify_orgs_in_city(city, ...)
NotifyOrgsInCity(notes, city) ==
    [u \in NotifiedUsers |->
        notes[u] + Cardinality({ m \in OrgMembersInCity(city) : m.user = u })]

\* has_gps
HasGps(rq) == rq.pos # Null

\* NextStage with the 10 km stage going straight to the loop
NextStageSkipsOrg(stage, has_gps) ==
    CASE stage = "CITY" -> IF has_gps THEN "RADIUS_5" ELSE "ORG"
      [] stage = "RADIUS_5" -> IF has_gps THEN "RADIUS_10" ELSE "ORG"
      [] stage = "RADIUS_10" -> "LOOP"
      [] stage = "ORG" -> "LOOP"
      [] stage = "LOOP" -> "LOOP"
      [] OTHER -> "DONE"

\* NextStage with the coordinates test left out of the CITY branch
NextStageIgnoresGps(stage, has_gps) ==
    CASE stage = "CITY" -> "RADIUS_5"
      [] stage = "RADIUS_5" -> IF has_gps THEN "RADIUS_10" ELSE "ORG"
      [] stage = "RADIUS_10" -> "ORG"
      [] stage = "ORG" -> "LOOP"
      [] stage = "LOOP" -> "LOOP"
      [] OTHER -> "DONE"

\* state.stage = ...: the stage each branch of the stage logic stores
NextStage(stage, has_gps) ==
    CASE stage = "CITY" -> IF has_gps THEN "RADIUS_5" ELSE "ORG"
      [] stage = "RADIUS_5" -> IF has_gps THEN "RADIUS_10" ELSE "ORG"
      [] stage = "RADIUS_10" -> "ORG"
      [] stage = "ORG" -> "LOOP"
      [] stage = "LOOP" -> "LOOP"
      [] OTHER -> "DONE"

\* the push_ping_stage calls each branch of the stage logic makes, in order
StagePings(stage, has_gps) ==
    CASE stage = "CITY" -> IF has_gps THEN << "RADIUS_5" >> ELSE << >>
      [] stage = "RADIUS_5" -> IF has_gps THEN << "RADIUS_10" >> ELSE << >>
      [] stage = "RADIUS_10" -> IF has_gps THEN << "RADIUS_10" >> ELSE << >>
      [] stage = "LOOP" -> IF has_gps THEN << "CITY", "RADIUS_10" >> ELSE << "CITY" >>
      [] OTHER -> << >>

RECURSIVE PushStages(_, _, _, _, _, _)
PushStages(st, rq, resp, don, stages, now) ==
    IF stages = << >> THEN st
    ELSE PushStages(push_ping_stage(st, rq, resp, don, Head(stages), now),
                    rq, resp, don, Tail(stages), now)

\* the notifications each branch of the stage logic writes
StageNotes(notes, stage, has_gps, rq) ==
    CASE stage = "CITY" -> NotifyUser(notes, rq.created_by)
      [] stage = "RADIUS_5" /\ has_gps -> NotifyUser(notes, rq.created_by)
      [] stage = "ORG" -> NotifyOrgsInCity(notes, rq.location_city)
      [] OTHER -> notes

\* the state row each branch of the stage logic saves
StageState(state, has_gps, now) ==
    CASE state.stage \in {"CITY", "RADIUS_5", "RADIUS_10"} ->
           schedule_next([state EXCEPT !.stage = NextStage(state.stage, has_gps),
                                       !.last_run_at = Some(now)],
                         StageMinutes, now)
      [] state.stage \in {"ORG", "LOOP"} ->
           schedule_next([state EXCEPT !.stage = NextStage(state.stage, has_gps),
                                       !.last_run_at = Some(now)],
                         LoopIntervalMinutes, now)
      [] OTHER -> [state EXCEPT !.stage = NextStage(state.stage, has_gps),
                                !.last_run_at = Some(now),
                                !.is_done = TRUE, !.next_run_at = Null]

\* the body of "with transaction.atomic()": the stage logic of one request.
\* cur = [esc, st, notes]: the state row, the dispatch rows, the notifications
StageLogic(cur, rq, resp, don, now) ==
    [esc |-> StageState(cur.esc, HasGps(rq), now),
     st |-> PushStages(cur.st, rq, resp, don, StagePings(cur.esc.stage, HasGps(rq)), now),
     notes |-> StageNotes(cur.notes, cur.esc.stage, HasGps(rq), rq)]

\* the tests of one iteration on the state row get_or_create returned
Process(loaded, r, rq, resp, don, now) ==
    IF loaded.esc.is_done THEN loaded
    ELSE IF NotDue(loaded.esc, now) THEN loaded
    ELSE IF ShouldStop(rq, resp, don[r])
    THEN [loaded EXCEPT !.esc = Finished(loaded.esc, now)]
    ELSE IF TooOld(rq, now) THEN [loaded EXCEPT !.esc = Finished(loaded.esc, now)]
    ELSE StageLogic(loaded, rq, resp, don, now)

\* one iteration of "for req in reqs.iterator()"
ProcessRequest(cur, r, rq, resp, don, now) ==
    Process([cur EXCEPT !.esc = GetOrCreateState(cur.esc, now)], r, rq, resp, don, now)

\* Command.handle on one request's rows: untouched when the queryset leaves it out
RunOn(r, now) ==
    IF Selected(req[r])
    THEN ProcessRequest([esc |-> esc[r],
                         st |-> [logs |-> pingLog[r], h |-> hist[r], sent |-> 0],
                         notes |-> schedNotes[r]],
                        r, req[r], response[r], donation, now)
    ELSE [esc |-> esc[r], st |-> [logs |-> pingLog[r], h |-> hist[r], sent |-> 0],
          notes |-> schedNotes[r]]

\* what a run leaves in the database
SaveRun(res) ==
    /\ esc' = [r \in Requests |-> res[r].esc]
    /\ pingLog' = [r \in Requests |-> res[r].st.logs]
    /\ hist' = [r \in Requests |-> res[r].st.h]
    /\ schedNotes' = [r \in Requests |-> res[r].notes]

\* Command.handle: one run of escalate_blood_requests
Tick ==
    /\ SaveRun([r \in Requests |-> RunOn(r, clock)])
    /\ lastStep' = "run"
    /\ UNCHANGED inFlight
    /\ UNCHANGED << clock, req, response, donation, points >>

\* ------------------------------------------ a run that raises or crashes

\* the order in which a donor queryset is iterated
DonorOrder == << "dA", "dB" >>

AsList(donors) == SelectSeq(DonorOrder, LAMBDA d : d \in donors)

\* the donors "for u in donors" reaches before donor d
Before(d) ==
    { DonorOrder[i] :
        i \in { j \in DOMAIN DonorOrder :
                  \E k \in DOMAIN DonorOrder : k > j /\ DonorOrder[k] = d } }

\* the orders in which reqs.iterator() may yield the requests: the queryset
\* has no order_by and the model no Meta.ordering
IterationOrders ==
    { o \in [1..Cardinality(Requests) -> Requests] :
        \A i, j \in DOMAIN o : o[i] = o[j] => i = j }

\* the requests a run reaches before request r
ReachedBefore(order, r) ==
    { order[i] : i \in { j \in DOMAIN order : \E k \in DOMAIN order : k > j /\ order[k] = r } }

\* RolledBack that keeps what the transaction wrote
RolledBackKeepsWrites(before, after) == after

\* what a stage logic that does not commit leaves of its dispatches: the
\* pushes went out, the PingLog rows and the notifications are rolled back
RolledBack(before, after) ==
    [logs |-> before.logs,
     h |-> [x \in Donors |->
              [pushes |-> after.h[x].pushes,
               last_push_at |-> after.h[x].last_push_at,
               last_stage |-> after.h[x].last_stage,
               notifs |-> before.h[x].notifs]],
     sent |-> 0]

RECURSIVE PushUntilFailure(_, _, _, _, _, _, _)
RECURSIVE FailOrGoOn(_, _, _, _, _, _, _, _)

\* one call of _send_ping that pings the donors `pinged`: group_send raises at
\* donor d if d is among them, after the donors before d were pinged
FailOrGoOn(st, pinged, rq, resp, don, stages, now, d) ==
    IF d \in pinged
    THEN [st |-> PingAll(st, pinged \cap Before(d), Head(stages), now), failed |-> TRUE]
    ELSE PushUntilFailure(PingAll(st, pinged, Head(stages), now),
                          rq, resp, don, Tail(stages), now, d)

\* the push_ping_stage calls of a stage logic, up to the group_send to donor d
PushUntilFailure(st, rq, resp, don, stages, now, d) ==
    IF stages = << >> THEN [st |-> st, failed |-> FALSE]
    ELSE FailOrGoOn(st,
                    PingedDonors(st.logs, resp,
                                 StageDonors(rq, Head(stages), don, now), now),
                    rq, resp, don, stages, now, d)

\* the iteration on a state row that reaches the stage logic
ReachesStageLogic(state, r, rq, resp, don, now) ==
    /\ ~state.is_done
    /\ ~NotDue(state, now)
    /\ ~ShouldStop(rq, resp, don[r])
    /\ ~TooOld(rq, now)

\* the rows of request r after an iteration whose stage logic did not commit:
\* the state row get_or_create returned, the pushes of `partial`
Uncommitted(r, state, partial) ==
    [esc |-> state,
     st |-> RolledBack([logs |-> pingLog[r], h |-> hist[r], sent |-> 0], partial.st),
     notes |-> schedNotes[r],
     failed |-> partial.failed]

\* the iteration on request r in which the group_send to donor d raises
FailingOn(r, d, state, now) ==
    IF Selected(req[r]) /\ ReachesStageLogic(state, r, req[r], response[r], donation, now)
    THEN Uncommitted(r, state,
                     PushUntilFailure([logs |-> pingLog[r], h |-> hist[r], sent |-> 0],
                                      req[r], response[r], donation,
                                      StagePings(state.stage, HasGps(req[r])), now, d))
    ELSE [esc |-> esc[r], st |-> [logs |-> pingLog[r], h |-> hist[r], sent |-> 0],
          notes |-> schedNotes[r], failed |-> FALSE]

\* the iteration on request r in which the process dies before state.save: the
\* pushes of the stage logic went out
CrashingOn(r, state, now) ==
    IF Selected(req[r]) /\ ReachesStageLogic(state, r, req[r], response[r], donation, now)
    THEN Uncommitted(r, state,
                     [st |-> PushStages([logs |-> pingLog[r], h |-> hist[r], sent |-> 0],
                                        req[r], response[r], donation,
                                        StagePings(state.stage, HasGps(req[r])), now),
                      failed |-> TRUE])
    ELSE [esc |-> esc[r], st |-> [logs |-> pingLog[r], h |-> hist[r], sent |-> 0],
          notes |-> schedNotes[r], failed |-> FALSE]

\* a run that ends at request r: the requests reached before r are done, r is
\* left as `broken`, the others are not reached.  Bounded: no two such runs
\* in a row.
EndsAt(order, r, broken) ==
    /\ lastStep # "failed"
    /\ broken.failed
    /\ SaveRun([x \in Requests |->
                  IF x = r THEN broken
                  ELSE IF x \in ReachedBefore(order, r) THEN RunOn(x, clock)
                  ELSE [esc |-> esc[x],
                        st |-> [logs |-> pingLog[x], h |-> hist[x], sent |-> 0],
                        notes |-> schedNotes[x]]])
    /\ lastStep' = "failed"
    /\ UNCHANGED inFlight
    /\ UNCHANGED << clock, req, response, donation, points >>

\* Command.handle when channel_layer.group_send raises for donor d of request
\* r: nothing catches it, the atomic block rolls back and the command ends
TickFailing(order, r, d) ==
    EndsAt(order, r, FailingOn(r, d, GetOrCreateState(esc[r], clock), clock))

\* Command.handle when the process dies in the stage logic of request r
TickCrashing(order, r) ==
    EndsAt(order, r, CrashingOn(r, GetOrCreateState(esc[r], clock), clock))

\* ------------------------------------------------------------ request views

NoReq == [exists |-> FALSE, status |-> "OPEN", is_active |-> FALSE,
          is_emergency |-> FALSE, verification_status |-> "UNVERIFIED",
          created_at |-> 0, created_by |-> Null, units_needed |-> 1,
          pos |-> Null, fulfilled_at |-> Null,
          location_city |-> << >>, blood_group |-> ""]

\* rows: the BloodDonation rows of the pair
NoDonation == [exists |-> FALSE, status |-> "COMPLETED", units |-> 0, donated_at |-> 0,
               rows |-> 0]

\* "This request is closed."
Closed(rq) == rq.status \in {"FULFILLED", "CANCELLED"} \/ ~rq.is_active

\* what a dispatch for request r leaves in the database
SaveDispatch(r, st) ==
    /\ pingLog' = [pingLog EXCEPT ![r] = st.logs]
    /\ hist' = [hist EXCEPT ![r] = st.h]

\* transaction.on_commit(lambda: push_ping_to_donors(obj))
DispatchOnCommit(r, rq) ==
    SaveDispatch(r, push_ping_to_donors([logs |-> pingLog[r], h |-> hist[r], sent |-> 0],
                                        rq, response[r], donation, clock))

\* emergency_request_view: a guest posts an emergency request
EmergencyRequest(r, city, blood, units) ==
    LET rq == [NoReq EXCEPT !.exists = TRUE, !.created_by = Null,
                            !.is_emergency = TRUE, !.status = "OPEN",
                            !.is_active = TRUE, !.verification_status = "PENDING",
                            !.created_at = clock, !.units_needed = units,
                            !.location_city = city, !.blood_group = blood]
    IN  /\ ~req[r].exists
        /\ req' = [req EXCEPT ![r] = rq]
        /\ DispatchOnCommit(r, rq)
        /\ lastStep' = "other"
        /\ UNCHANGED inFlight
        /\ UNCHANGED << clock, esc, response, donation, points, schedNotes >>

\* recipient_request_view: a logged-in recipient posts a request
RecipientRequest(r, city, blood, units, emergency, kyc) ==
    LET rq == [NoReq EXCEPT !.exists = TRUE, !.created_by = Some(Requester),
                            !.is_emergency = emergency, !.status = "OPEN",
                            !.is_active = TRUE,
                            !.verification_status = IF kyc THEN "VERIFIED" ELSE "PENDING",
                            !.created_at = clock, !.units_needed = units,
                            !.location_city = city, !.blood_group = blood]
    IN  /\ ~req[r].exists
        /\ req' = [req EXCEPT ![r] = rq]
        /\ DispatchOnCommit(r, rq)
        /\ lastStep' = "other"
        /\ UNCHANGED inFlight
        /\ UNCHANGED << clock, esc, response, donation, points, schedNotes >>

\* PublicBloodRequestAdmin: staff fill in the request's latitude / longitude
AdminSetCoordinates(r, pos) ==
    /\ req[r].exists
    /\ req[r].pos # pos
    /\ req' = [req EXCEPT ![r].pos = pos]
    /\ lastStep' = "other"
    /\ UNCHANGED inFlight
    /\ UNCHANGED << clock, esc, pingLog, response, donation, points, hist, schedNotes >>

\* blood_request_edit_view: the creator edits an open request
EditRequest(r, city, blood, units, emergency, kyc) ==
    /\ req[r].exists
    /\ req[r].created_by = Some(Requester)
    /\ ~Closed(req[r])
    /\ req' = [req EXCEPT ![r].location_city = city, ![r].blood_group = blood,
                          ![r].units_needed = units, ![r].is_emergency = emergency,
                          ![r].verification_status = IF kyc THEN "VERIFIED" ELSE "PENDING"]
    /\ lastStep' = "other"
    /\ UNCHANGED inFlight
    /\ UNCHANGED << clock, esc, pingLog, response, donation, points, hist, schedNotes >>

\* CancelRequest that also ends the escalation of the request
CancelRequestEndsEscalation(r) ==
    /\ req[r].exists
    /\ ~Closed(req[r])
    /\ req' = [req EXCEPT ![r].status = "CANCELLED", ![r].is_active = FALSE]
    /\ esc' = [esc EXCEPT ![r] = Finished(@, clock)]
    /\ lastStep' = "other"
    /\ UNCHANGED inFlight
    /\ UNCHANGED << clock, pingLog, response, donation, points, hist, schedNotes >>

\* blood_request_cancel_view: staff or the creator cancel a request
CancelRequest(r) ==
    /\ req[r].exists
    /\ ~Closed(req[r])
    /\ req' = [req EXCEPT ![r].status = "CANCELLED", ![r].is_active = FALSE]
    /\ lastStep' = "other"
    /\ UNCHANGED inFlight
    /\ UNCHANGED << clock, esc, pingLog, response, donation, points, hist, schedNotes >>

\* verify_request_view, action "approve"
ApproveRequest(r) ==
    /\ req[r].exists
    /\ req' = [req EXCEPT ![r].verification_status = "VERIFIED"]
    /\ lastStep' = "other"
    /\ UNCHANGED inFlight
    /\ UNCHANGED << clock, esc, pingLog, response, donation, points, hist, schedNotes >>

\* verify_request_view, action "reject"
RejectRequest(r) ==
    /\ req[r].exists
    /\ req' = [req EXCEPT ![r].verification_status = "REJECTED",
                          ![r].status = "CANCELLED", ![r].is_active = FALSE]
    /\ lastStep' = "other"
    /\ UNCHANGED inFlight
    /\ UNCHANGED << clock, esc, pingLog, response, donation, points, hist, schedNotes >>

\* ------------------------------------------------------------- donor views

\* the request's status after a donor or a guest moved it out of OPEN
StartProgress(rq) == IF rq.status = "OPEN" THEN [rq EXCEPT !.status = "IN_PROGRESS"] ELSE rq

\* the guards donor_respond_view, quick_respond_view and donation_create_view share
DonorMayAct(r, d) ==
    /\ req[r].exists
    /\ profile[d].is_donor
    /\ req[r].created_by # Some(d)
    /\ ~Closed(req[r])
    /\ is_eligible(donation, d, clock)

\* donor_respond_view: the response form, any of the four statuses
DonorRespond(r, d, status) ==
    /\ DonorMayAct(r, d)
    /\ response' = [response EXCEPT ![r][d] = status]
    /\ req' = [req EXCEPT ![r] = IF status = "ACCEPTED" THEN StartProgress(@) ELSE @]
    /\ lastStep' = "other"
    /\ UNCHANGED inFlight
    /\ UNCHANGED << clock, esc, pingLog, donation, points, hist, schedNotes >>

\* quick_respond_view: the one-click response
QuickRespond(r, d, status) ==
    /\ DonorMayAct(r, d)
    /\ status \in {"ACCEPTED", "DECLINED", "DELAYED"}
    /\ response' = [response EXCEPT ![r][d] = status]
    /\ req' = [req EXCEPT ![r] = IF status = "ACCEPTED" THEN StartProgress(@) ELSE @]
    /\ lastStep' = "other"
    /\ UNCHANGED inFlight
    /\ UNCHANGED << clock, esc, pingLog, donation, points, hist, schedNotes >>

\* guest_donate_view: a guest says he is coming
GuestDonate(r) ==
    /\ req[r].exists
    /\ ~Closed(req[r])
    /\ req' = [req EXCEPT ![r] = StartProgress(@)]
    /\ lastStep' = "other"
    /\ UNCHANGED inFlight
    /\ UNCHANGED << clock, esc, pingLog, response, donation, points, hist, schedNotes >>

\* donation_create_view: a donor records a donation for the request
DonationCreate(r, d, units, donated_at) ==
    /\ DonorMayAct(r, d)
    /\ ~donation[r][d].exists
    /\ donation' = [donation EXCEPT ![r][d] =
                      [exists |-> TRUE, status |-> "COMPLETED", units |-> units,
                       donated_at |-> donated_at, rows |-> 1]]
    /\ req' = [req EXCEPT ![r] = StartProgress(@)]
    /\ lastStep' = "other"
    /\ UNCHANGED inFlight
    /\ UNCHANGED << clock, esc, pingLog, response, points, hist, schedNotes >>

\* ------------------------------------------------------------- fulfilment

RECURSIVE SumUnits(_, _)
SumUnits(don, ds) ==
    IF ds = {} THEN 0
    ELSE LET d == CHOOSE x \in ds : TRUE
         IN  don[d].units + SumUnits(don, ds \ {d})

\* Sum("units") over the request's VERIFIED donations
VerifiedUnits(don) ==
    SumUnits(don, { d \in Donors : don[d].exists /\ don[d].status = "VERIFIED" })

\* needed = int(req.units_needed or 1)
Needed(rq) == IF rq.units_needed = 0 THEN 1 ELSE rq.units_needed

\* IsFulfilled that wants more than the units needed
IsFulfilledAbove(verified_units, needed) == verified_units > needed

\* verified_units >= needed
IsFulfilled(verified_units, needed) == verified_units >= needed

\* add_points = 150 + (20 * units)
AddPoints(units) == BasePoints + PointsPerUnit * units

\* the request part of mark_verified. row: the request's row; loaded: self.request,
\* the instance the caller loaded; don: the request's donations after save.
\* req.save(update_fields=...) writes the named columns only.
UpdateRequest(row, loaded, don, now) ==
    IF IsFulfilled(VerifiedUnits(don), Needed(loaded))
    THEN [row EXCEPT !.status = "FULFILLED", !.is_active = FALSE, !.fulfilled_at = Some(now)]
    ELSE IF loaded.status = "OPEN" THEN [row EXCEPT !.status = "IN_PROGRESS"]
    ELSE row

\* BloodDonation.mark_verified on the donation of donor d for request r, called
\* on an instance loaded with the given status and request
mark_verified(r, d, loaded_status, loaded_req) ==
    LET don == [donation EXCEPT ![r][d].status = "VERIFIED"]
    IN  IF loaded_status = "VERIFIED"
        THEN UNCHANGED << donation, points, req >>
        ELSE /\ donation' = don
             /\ points' = [points EXCEPT ![d] = @ + AddPoints(donation[r][d].units)]
             /\ req' = [req EXCEPT ![r] = UpdateRequest(@, loaded_req, don[r], clock)]

\* verify_donation_view: staff verify a donation, load and save in one step
VerifyDonation(r, d) ==
    /\ donation[r][d].exists
    /\ mark_verified(r, d, donation[r][d].status, req[r])
    /\ lastStep' = "other"
    /\ UNCHANGED inFlight
    /\ UNCHANGED << clock, esc, pingLog, response, hist, schedNotes >>

\* ------------------------------------------------------------------- time

\* Time is counted from the posting of the first request.
Started == \E r \in Requests : req[r].exists

\* a minute passes, up to the limit
MinutePassesUntil(limit) ==
    /\ Started
    /\ clock < limit
    /\ clock' = clock + 1
    /\ lastStep' = "other"
    /\ UNCHANGED inFlight
    /\ UNCHANGED << req, esc, pingLog, response, donation, points, hist, schedNotes >>

\* the escalation window passes with nothing happening
WindowPasses ==
    /\ Started
    /\ clock <= MaxClock
    /\ clock' = clock + MaxMinutes
    /\ lastStep' = "other"
    /\ UNCHANGED inFlight
    /\ UNCHANGED << req, esc, pingLog, response, donation, points, hist, schedNotes >>

\* --------------------------------------- _send_ping, statement by statement

\* The callers whose executions of _send_ping may overlap: two runs of the
\* escalation command, or a run and a request view.
Callers == {"p1", "p2"}

\* the locals of one execution: pc is the statement it is at, todo the donors
\* the loop has not reached, responded and logs what it read before the loop;
\* lost records that its INSERT met the other execution's row
NoDisp == [pc |-> "idle", r |-> 0, stage |-> "", now |-> 0, todo |-> << >>,
           responded |-> [d \in Donors |-> "NONE"],
           logs |-> [d \in Donors |-> NoLog],
           created |-> FALSE, lost |-> FALSE, sent |-> 0, runs |-> 0]

\* BloodDonorPingLog is unique per (request, donor): an INSERT for a pair that
\* has a row fails with IntegrityError
InsertViolatesUnique(log) == log.exists

\* the statements before the loop: now, responded_ids and logs are read
SendPingBegin(p, r, stage) ==
    LET donors == AsList(StageDonors(req[r], stage, donation, clock))
    IN  /\ disp[p].pc = "idle"
        /\ disp[p].runs < MaxRuns
        /\ req[r].exists
        /\ disp' = [disp EXCEPT ![p] =
                      [pc |-> IF donors = << >> THEN "idle" ELSE "loop",
                       r |-> r, stage |-> stage, now |-> clock, todo |-> donors,
                       responded |-> response[r], logs |-> pingLog[r],
                       created |-> FALSE, lost |-> FALSE, sent |-> 0,
                       runs |-> disp[p].runs + 1]]
        /\ lastStep' = "other"
        /\ UNCHANGED << clock, req, esc, pingLog, response, donation, points, hist,
                        schedNotes, staff, profile, sched, creating >>

\* "for u in donors": the checks on what was read, then group_send; after the
\* last donor the execution returns
SendPingNext(p) ==
    LET me == disp[p]
        u == Head(me.todo)
        pushed == u \in PingedDonors(me.logs, me.responded, {u}, me.now)
    IN  /\ me.pc = "loop"
        /\ IF me.todo = << >>
           THEN /\ disp' = [disp EXCEPT ![p].pc = "idle"]
                /\ hist' = hist
           ELSE IF pushed
           THEN /\ disp' = [disp EXCEPT ![p].pc = "get"]
                /\ hist' = [hist EXCEPT ![me.r][u].pushes = @ + 1,
                                        ![me.r][u].last_push_at = Some(me.now),
                                        ![me.r][u].last_stage = me.stage]
           ELSE /\ disp' = [disp EXCEPT ![p].todo = Tail(me.todo)]
                /\ hist' = hist
        /\ lastStep' = "other"
        /\ UNCHANGED << clock, req, esc, pingLog, response, donation, points,
                        schedNotes, staff, profile, sched, creating >>

\* get_or_create: the SELECT
SendPingGet(p) ==
    LET me == disp[p]
        u == Head(me.todo)
    IN  /\ me.pc = "get"
        /\ disp' = [disp EXCEPT ![p].pc = IF pingLog[me.r][u].exists THEN "update"
                                          ELSE "create",
                                ![p].created = FALSE]
        /\ lastStep' = "other"
        /\ UNCHANGED << clock, req, esc, pingLog, response, donation, points, hist,
                        schedNotes, staff, profile, sched, creating >>

\* get_or_create: the INSERT after the SELECT found no row; on IntegrityError
\* get_or_create reads the row that is there and returns it with created False
SendPingCreate(p) ==
    LET me == disp[p]
        u == Head(me.todo)
    IN  /\ me.pc = "create"
        /\ IF InsertViolatesUnique(pingLog[me.r][u])
           THEN /\ disp' = [disp EXCEPT ![p].pc = "update", ![p].created = FALSE,
                                        ![p].lost = TRUE]
                /\ pingLog' = pingLog
           ELSE /\ disp' = [disp EXCEPT ![p].pc = "notify", ![p].created = TRUE]
                /\ pingLog' = [pingLog EXCEPT ![me.r][u] = UpsertLog(NoLog, me.stage, me.now)]
        /\ lastStep' = "other"
        /\ UNCHANGED << clock, req, esc, response, donation, points, hist,
                        schedNotes, staff, profile, sched, creating >>

\* "if not created:" the UPDATE with ping_count = F("ping_count") + 1
SendPingUpdate(p) ==
    LET me == disp[p]
        u == Head(me.todo)
    IN  /\ me.pc = "update"
        /\ disp' = [disp EXCEPT ![p].pc = "notify"]
        /\ pingLog' = [pingLog EXCEPT ![me.r][u] = UpsertLog(@, me.stage, me.now)]
        /\ lastStep' = "other"
        /\ UNCHANGED << clock, req, esc, response, donation, points, hist,
                        schedNotes, staff, profile, sched, creating >>

\* "if created:" Notification.objects.create, then sent += 1
SendPingNotify(p) ==
    LET me == disp[p]
        u == Head(me.todo)
    IN  /\ me.pc = "notify"
        /\ disp' = [disp EXCEPT ![p].pc = "loop", ![p].todo = Tail(me.todo),
                                ![p].sent = me.sent + 1]
        /\ hist' = [hist EXCEPT ![me.r][u].notifs =
                      IF ShouldNotify(me.created) THEN @ + 1 ELSE @]
        /\ lastStep' = "other"
        /\ UNCHANGED << clock, req, esc, pingLog, response, donation, points,
                        schedNotes, staff, profile, sched, creating >>

\* the ping cooldown passes, up to the limit
CooldownPasses(limit) ==
    /\ Started
    /\ clock < limit
    /\ clock' = clock + CooldownSeconds \div 60
    /\ lastStep' = "other"
    /\ UNCHANGED << req, esc, pingLog, response, donation, points, hist, schedNotes,
                    inFlight >>

\* ------------------------------------ verification, load and save apart

\* the staff sessions whose verification requests may overlap
Staff == {"s1", "s2"}

\* the locals of one verification request: the donation instance it loaded
\* (its status) with the request select_related loaded along with it
NoStaff == [pc |-> "idle", r |-> 0, d |-> "", status |-> "", rq |-> NoReq]

\* get_object_or_404(BloodDonation.objects.select_related("request", ...))
VerifyLoad(s, r, d) ==
    /\ staff[s].pc = "idle"
    /\ donation[r][d].exists
    /\ staff' = [staff EXCEPT ![s] = [pc |-> "loaded", r |-> r, d |-> d,
                                      status |-> donation[r][d].status, rq |-> req[r]]]
    /\ lastStep' = "other"
    /\ UNCHANGED << clock, req, esc, pingLog, response, donation, points, hist,
                    schedNotes, disp, profile, sched, creating >>

\* donation.mark_verified(request.user, ...) on the loaded instance
VerifyApply(s) ==
    /\ staff[s].pc = "loaded"
    /\ mark_verified(staff[s].r, staff[s].d, staff[s].status, staff[s].rq)
    /\ staff' = [staff EXCEPT ![s] = NoStaff]
    /\ lastStep' = "other"
    /\ UNCHANGED << clock, esc, pingLog, response, hist, schedNotes, disp, profile, sched, creating >>

\* BloodDonationAdmin: staff add a donation row for the request by hand
AdminAddDonation(r, d, units, donated_at) ==
    /\ req[r].exists
    /\ ~donation[r][d].exists
    /\ donation' = [donation EXCEPT ![r][d] =
                      [exists |-> TRUE, status |-> "COMPLETED", units |-> units,
                       donated_at |-> donated_at, rows |-> 1]]
    /\ lastStep' = "other"
    /\ UNCHANGED << clock, req, esc, pingLog, response, points, hist, schedNotes,
                    inFlight >>

\* ------------------------------- donation_create_view, statement by statement

\* The browser sessions whose donation forms may be posted at once: two tabs
\* or a double click of one donor, or two donors.
Sessions == {"b1", "b2"}

\* the locals of one execution: blood_req as loaded, the donor, the form's
\* units; outcome is the message it ended with, lost records that its INSERT
\* met a row
NoCreating == [pc |-> "idle", r |-> 0, d |-> "", units |-> 0, rq |-> NoReq,
               outcome |-> "", lost |-> FALSE]

\* the UniqueConstraint that is never violated
DonationInsertNeverViolates(row) == FALSE

\* uniq_donation_per_request_per_donor: an INSERT for a pair that has a row
\* fails with IntegrityError
DonationInsertViolatesUnique(row) == row.exists

\* "You already recorded a donation for this request."
AlreadyRecorded(b, r, d, units, lost) ==
    [creating EXCEPT ![b] = [pc |-> "idle", r |-> r, d |-> d, units |-> units,
                             rq |-> NoReq, outcome |-> "already", lost |-> lost]]

\* the view up to the form: the guards and the quick check for an existing row
DonationCheck(b, r, d, units) ==
    /\ creating[b].pc = "idle"
    /\ DonorMayAct(r, d)
    /\ creating' = IF donation[r][d].exists
                   THEN AlreadyRecorded(b, r, d, units, FALSE)
                   ELSE [creating EXCEPT ![b] =
                           [pc |-> "get", r |-> r, d |-> d, units |-> units,
                            rq |-> req[r], outcome |-> "", lost |-> FALSE]]
    /\ lastStep' = "other"
    /\ UNCHANGED << clock, req, esc, pingLog, response, donation, points, hist,
                    schedNotes, disp, staff, profile, sched >>

\* get_or_create: the SELECT; a row found comes back with created False
DonationGet(b) ==
    LET me == creating[b]
    IN  /\ me.pc = "get"
        /\ creating' = IF donation[me.r][me.d].exists
                       THEN AlreadyRecorded(b, me.r, me.d, me.units, FALSE)
                       ELSE [creating EXCEPT ![b].pc = "insert"]
        /\ lastStep' = "other"
        /\ UNCHANGED << clock, req, esc, pingLog, response, donation, points, hist,
                        schedNotes, disp, staff, profile, sched >>

\* get_or_create: the INSERT after the SELECT found no row, then the request
\* loaded at the start goes from OPEN to IN_PROGRESS
DonationInsert(b) ==
    LET me == creating[b]
    IN  /\ me.pc = "insert"
        /\ IF DonationInsertViolatesUnique(donation[me.r][me.d])
           THEN /\ creating' = AlreadyRecorded(b, me.r, me.d, me.units, TRUE)
                /\ UNCHANGED << donation, req >>
           ELSE /\ creating' = [creating EXCEPT ![b].pc = "idle",
                                                ![b].outcome = "recorded"]
                /\ donation' = [donation EXCEPT ![me.r][me.d] =
                                  [exists |-> TRUE, status |-> "COMPLETED",
                                   units |-> me.units, donated_at |-> clock,
                                   rows |-> @.rows + 1]]
                /\ req' = IF me.rq.status = "OPEN"
                          THEN [req EXCEPT ![me.r].status = "IN_PROGRESS"]
                          ELSE req
        /\ lastStep' = "other"
        /\ UNCHANGED << clock, esc, pingLog, response, points, hist,
                        schedNotes, disp, staff, profile, sched >>

\* ------------------------------------- the escalation command, run by run

\* The runs of escalate_blood_requests that may overlap: the command takes no
\* lock, and the state row is read outside the transaction that saves it.
Runs == {"k1", "k2"}

\* the locals of one iteration of "for req in reqs.iterator()": the request
\* the iterator yielded, the state row get_or_create returned, and now
NoSched == [pc |-> "idle", r |-> 0, now |-> 0, rq |-> NoReq, state |-> NoEsc]

\* the iteration of run k on request r up to "with transaction.atomic()":
\* get_or_create, which commits the row it creates, and the tests that let
\* the iteration through to the stage logic
RunLoad(k, r) ==
    /\ sched[k].pc = "idle"
    /\ Selected(req[r])
    /\ ReachesStageLogic(GetOrCreateState(esc[r], clock), r, req[r], response[r],
                         donation, clock)
    /\ esc' = [esc EXCEPT ![r] = GetOrCreateState(@, clock)]
    /\ sched' = [sched EXCEPT ![k] = [pc |-> "atomic", r |-> r, now |-> clock,
                                      rq |-> req[r], state |-> esc'[r]]]
    /\ lastStep' = "other"
    /\ UNCHANGED << clock, req, pingLog, response, donation, points, hist,
                    schedNotes, disp, staff, profile, creating >>

\* the rows the stage logic of run k leaves: it works on the state row and the
\* request it loaded, and on the PingLog rows and responses it reads now
StageLogicOf(k) ==
    StageLogic([esc |-> sched[k].state,
                st |-> [logs |-> pingLog[sched[k].r], h |-> hist[sched[k].r], sent |-> 0],
                notes |-> schedNotes[sched[k].r]],
               sched[k].rq, response[sched[k].r], donation, sched[k].now)

\* what the atomic block of an iteration on request r commits
SaveIteration(r, res) ==
    /\ esc' = [esc EXCEPT ![r] = res.esc]
    /\ pingLog' = [pingLog EXCEPT ![r] = res.st.logs]
    /\ hist' = [hist EXCEPT ![r] = res.st.h]
    /\ schedNotes' = [schedNotes EXCEPT ![r] = res.notes]

\* "with transaction.atomic()": the stage logic of the iteration and state.save
RunStageLogic(k) ==
    /\ sched[k].pc = "atomic"
    /\ SaveIteration(sched[k].r, StageLogicOf(k))
    /\ sched' = [sched EXCEPT ![k] = NoSched]
    /\ lastStep' = "run"
    /\ UNCHANGED << clock, req, response, donation, points, disp, staff, profile, creating >>

\* The LOOP branch, call by call: each push_ping_stage call ends in _send_ping,
\* which reads timezone.now() and the PingLog rows for itself.

\* the rows of request r as a dispatch finds them
RowsOf(r) == [logs |-> pingLog[r], h |-> hist[r], sent |-> 0]

\* push_ping_stage(req, "CITY") of the LOOP branch of run k
LoopCityDispatch(k) ==
    /\ sched[k].pc = "atomic"
    /\ sched[k].state.stage = "LOOP"
    /\ SaveDispatch(sched[k].r,
                    push_ping_stage(RowsOf(sched[k].r), sched[k].rq, response[sched[k].r],
                                    donation, "CITY", clock))
    /\ sched' = [sched EXCEPT ![k].pc = "loop_radius"]
    /\ lastStep' = "other"
    /\ UNCHANGED << clock, req, esc, response, donation, points, schedNotes,
                    disp, staff, profile, creating >>

\* "if has_gps: push_ping_stage(req, "RADIUS_10")", schedule_next and state.save
\* of the LOOP branch of run k
LoopRadiusDispatch(k) ==
    /\ sched[k].pc = "loop_radius"
    /\ SaveDispatch(sched[k].r,
                    IF HasGps(sched[k].rq)
                    THEN push_ping_stage(RowsOf(sched[k].r), sched[k].rq,
                                         response[sched[k].r], donation, "RADIUS_10", clock)
                    ELSE RowsOf(sched[k].r))
    /\ esc' = [esc EXCEPT ![sched[k].r] =
                  StageState(sched[k].state, HasGps(sched[k].rq), sched[k].now)]
    /\ sched' = [sched EXCEPT ![k] = NoSched]
    /\ lastStep' = "run"
    /\ UNCHANGED << clock, req, response, donation, points, schedNotes,
                    disp, staff, profile, creating >>

\* ---------------------------------------------------------- specification

ReqCity == << "Asan", ",", "Kathmandu" >>
ReqBlood == "A+"
ResponseStatuses == { "PENDING", "ACCEPTED", "DECLINED", "DELAYED" }
Positions == { Null, Some(0) }

Init ==
    /\ clock = 0
    /\ req = [r \in Requests |-> NoReq]
    /\ esc = [r \in Requests |-> NoEsc]
    /\ pingLog = [r \in Requests |-> [d \in Donors |-> NoLog]]
    /\ response = [r \in Requests |-> [d \in Donors |-> "NONE"]]
    /\ donation = [r \in DonationKeys |-> [d \in Donors |-> NoDonation]]
    /\ points = [d \in Donors |-> 0]
    /\ hist = [r \in Requests |-> [d \in Donors |-> NoHist]]
    /\ schedNotes = [r \in Requests |-> NoNotes]
    /\ lastStep = "other"
    /\ disp = [p \in Callers |-> NoDisp]
    /\ staff = [s \in Staff |-> NoStaff]
    /\ profile = DonorProfile
    /\ sched = [k \in Runs |-> NoSched]
    /\ creating = [b \in Sessions |-> NoCreating]

Next ==
    \/ \E r \in Watched : EmergencyRequest(r, ReqCity, ReqBlood, 1)
    \/ \E r \in Watched, e \in BOOLEAN : RecipientRequest(r, ReqCity, ReqBlood, 1, e, FALSE)
    \/ \E r \in Watched, p \in Positions : AdminSetCoordinates(r, p)
    \/ \E r \in Watched : CancelRequest(r)
    \/ \E r \in Watched : RejectRequest(r)
    \/ \E r \in Watched, s \in {"ACCEPTED", "DECLINED"} : QuickRespond(r, "dA", s)
    \/ \E r \in Watched : DonationCreate(r, "dB", 1, clock)
    \/ \E r \in Watched : VerifyDonation(r, "dB")
    \/ MinutePassesUntil(MaxClock)
    \/ WindowPasses
    \/ Tick

Spec == Init /\ [][Next]_vars

\* The dispatcher over the minutes of an escalation: every response status,
\* both donors, each call of _send_ping as one step.
NextPing ==
    \/ \E r \in Watched : EmergencyRequest(r, ReqCity, ReqBlood, 1)
    \/ \E r \in Watched, p \in Positions : AdminSetCoordinates(r, p)
    \/ \E r \in Watched, s \in ResponseStatuses : DonorRespond(r, "dA", s)
    \/ \E r \in Watched, s \in {"DECLINED", "DELAYED"} : QuickRespond(r, "dB", s)
    \/ MinutePassesUntil(MaxPingClock)
    \/ Tick

SpecPing == Init /\ [][NextPing]_vars

\* Two callers inside _send_ping at once, for the same request.
PingStages == {"CITY", "RADIUS_10"}

NextRace ==
    \/ \E r \in Watched : EmergencyRequest(r, ReqCity, ReqBlood, 1)
    \/ \E r \in Watched : AdminSetCoordinates(r, Some(0))
    \/ \E p \in Callers, r \in Watched, stage \in PingStages : SendPingBegin(p, r, stage)
    \/ \E p \in Callers : SendPingNext(p)
    \/ \E p \in Callers : SendPingGet(p)
    \/ \E p \in Callers : SendPingCreate(p)
    \/ \E p \in Callers : SendPingUpdate(p)
    \/ \E p \in Callers : SendPingNotify(p)
    \/ CooldownPasses(MaxRaceClock)

SpecRace == Init /\ [][NextRace]_vars

\* Donations and their verification, one request at a time.
UnitsNeeded == {1, 2}
DonationUnits == {0, 1, 2}

NextFulfil ==
    \/ \E r \in Watched, u \in UnitsNeeded :
         RecipientRequest(r, ReqCity, ReqBlood, u, FALSE, TRUE)
    \/ \E r \in Watched : CancelRequest(r)
    \/ \E r \in Watched, d \in Donors, u \in DonationUnits : DonationCreate(r, d, u, clock)
    \/ \E r \in Watched, u \in DonationUnits : AdminAddDonation(r, "dB", u, clock)
    \/ \E r \in Watched, d \in Donors : VerifyDonation(r, d)

SpecFulfil == Init /\ [][NextFulfil]_vars

\* Two staff sessions verifying, each request in two steps.
NextVerifyRace ==
    \/ \E r \in Watched, u \in UnitsNeeded :
         RecipientRequest(r, ReqCity, ReqBlood, u, FALSE, TRUE)
    \/ \E r \in Watched, d \in Donors, u \in {1, 2} : DonationCreate(r, d, u, clock)
    \/ \E s \in Staff, r \in Watched, d \in Donors : VerifyLoad(s, r, d)
    \/ \E s \in Staff : VerifyApply(s)

SpecVerifyRace == Init /\ [][NextVerifyRace]_vars

\* The matcher over donors of every kind.  dA is a Kathmandu donor at the
\* request's place whose flags, blood group and last donation vary; dB is an
\* active O- donor whose city and place vary.
MatchBloods == {"O-", "A+"}
MatchCities == { ReqCity, << "Kathmandu" >> }
DonorBloods == {"O-", "A+", ""}
DonorCities == { << "Kathmandu" >>, << "KTM" >>, << "Patan" >>, << >> }
DonorPositions == { Null, Some(Radius5), Some(Radius10), Some(Radius10 + 1) }
EligibilityMinutes == EligibilityDays * MinutesPerDay

\* the donations a donor may have from before, given at minute 0
PastDonations ==
    { NoDonation } \cup
    { [exists |-> TRUE, status |-> s, units |-> 1, donated_at |-> 0, rows |-> 1] :
        s \in {"VERIFIED", "COMPLETED"} }

InitMatch ==
    /\ clock \in {0, EligibilityMinutes - 1}
    /\ req = [r \in Requests |-> NoReq]
    /\ esc = [r \in Requests |-> NoEsc]
    /\ pingLog = [r \in Requests |-> [d \in Donors |-> NoLog]]
    /\ response = [r \in Requests |-> [d \in Donors |-> "NONE"]]
    /\ \E past \in PastDonations :
         donation = [k \in DonationKeys |->
                       [d \in Donors |-> IF k = NoRequest /\ d = "dA" THEN past
                                         ELSE NoDonation]]
    /\ points = [d \in Donors |-> 0]
    /\ hist = [r \in Requests |-> [d \in Donors |-> NoHist]]
    /\ schedNotes = [r \in Requests |-> NoNotes]
    /\ lastStep = "other"
    /\ disp = [p \in Callers |-> NoDisp]
    /\ staff = [s \in Staff |-> NoStaff]
    /\ \E g \in DonorBloods, donor \in BOOLEAN, active \in BOOLEAN,
          city \in DonorCities, pos \in DonorPositions :
         profile = [d \in Donors |->
                      IF d = "dA"
                      THEN [city |-> << "KTM" >>, pos |-> Some(0), blood_group |-> g,
                            is_donor |-> donor, is_active |-> active]
                      ELSE [city |-> city, pos |-> pos, blood_group |-> "O-",
                            is_donor |-> TRUE, is_active |-> TRUE]]
    /\ sched = [k \in Runs |-> NoSched]
    /\ creating = [b \in Sessions |-> NoCreating]

NextMatch ==
    \/ \E r \in Watched, city \in MatchCities, g \in MatchBloods :
         EmergencyRequest(r, city, g, 1)
    \/ \E r \in Watched, p \in Positions : AdminSetCoordinates(r, p)
    \/ \E r \in Watched : MinutePassesUntil(req[r].created_at + MaxMatchMinutes)
    \/ Tick

SpecMatch == InitMatch /\ [][NextMatch]_vars

\* Eligibility around the end of the 90 days.  Each donor may have a donation
\* from before, of any status, given at minute 0 or 2; the clock starts 90
\* days after minute 0, and a donation recorded for the request is dated
\* minute 1.
EarlierDonations ==
    { NoDonation } \cup
    { [exists |-> TRUE, status |-> s, units |-> 1, donated_at |-> t, rows |-> 1] :
        s \in {"VERIFIED", "COMPLETED", "REJECTED"}, t \in {0, 2} }

InitEligible ==
    /\ clock = EligibilityMinutes
    /\ req = [r \in Requests |-> NoReq]
    /\ esc = [r \in Requests |-> NoEsc]
    /\ pingLog = [r \in Requests |-> [d \in Donors |-> NoLog]]
    /\ response = [r \in Requests |-> [d \in Donors |-> "NONE"]]
    /\ \E past \in [Donors -> EarlierDonations] :
         donation = [k \in DonationKeys |->
                       [d \in Donors |-> IF k = NoRequest THEN past[d] ELSE NoDonation]]
    /\ points = [d \in Donors |-> 0]
    /\ hist = [r \in Requests |-> [d \in Donors |-> NoHist]]
    /\ schedNotes = [r \in Requests |-> NoNotes]
    /\ lastStep = "other"
    /\ disp = [p \in Callers |-> NoDisp]
    /\ staff = [s \in Staff |-> NoStaff]
    /\ profile = DonorProfile
    /\ sched = [k \in Runs |-> NoSched]
    /\ creating = [b \in Sessions |-> NoCreating]

NextEligible ==
    \/ \E r \in Watched : RecipientRequest(r, ReqCity, ReqBlood, 2, FALSE, TRUE)
    \/ \E r \in Watched, d \in Donors : DonorRespond(r, d, "ACCEPTED")
    \/ \E r \in Watched : DonationCreate(r, "dA", 1, 1)
    \/ \E r \in Watched : VerifyDonation(r, "dA")
    \/ MinutePassesUntil(EligibilityMinutes + MaxEligibleMinutes)

SpecEligible == InitEligible /\ [][NextEligible]_vars

\* The city normalizer over what can be typed into the city field: every
\* sequence of up to MaxCityLen tokens of the vocabulary.
CityTokens ==
    { "KTM", "Kathmandu", "Valley", "city", "Asan", "Patan", "bkt" } \cup Separators

RECURSIVE SeqsUpTo(_, _)
SeqsUpTo(tokens, n) ==
    IF n = 0 THEN { << >> }
    ELSE LET shorter == SeqsUpTo(tokens, n - 1)
         IN  shorter \cup { Append(c, t) : c \in shorter, t \in tokens }

CityInputs == SeqsUpTo(CityTokens, MaxCityLen) \ { << >> }

NextCity ==
    \/ \E r \in Watched, city \in CityInputs :
         RecipientRequest(r, city, ReqBlood, 1, TRUE, FALSE)
    \/ \E r \in Watched, city \in {ReqCity, << "Patan" >>} :
         EditRequest(r, city, ReqBlood, 1, TRUE, FALSE)

SpecCity == Init /\ [][NextCity]_vars

\* Runs over a batch of two emergency requests, some of which raise or crash.
\* The two donors gave their coordinates and no city, and live within 5 km of
\* the requests.
BatchProfile ==
    [d \in Donors |->
        [city |-> << >>, pos |-> IF d = "dA" THEN Some(0) ELSE Some(4),
         blood_group |-> "O-", is_donor |-> TRUE, is_active |-> TRUE]]

InitBatch ==
    /\ clock = 0
    /\ req = [r \in Requests |-> NoReq]
    /\ esc = [r \in Requests |-> NoEsc]
    /\ pingLog = [r \in Requests |-> [d \in Donors |-> NoLog]]
    /\ response = [r \in Requests |-> [d \in Donors |-> "NONE"]]
    /\ donation = [r \in DonationKeys |-> [d \in Donors |-> NoDonation]]
    /\ points = [d \in Donors |-> 0]
    /\ hist = [r \in Requests |-> [d \in Donors |-> NoHist]]
    /\ schedNotes = [r \in Requests |-> NoNotes]
    /\ lastStep = "other"
    /\ disp = [p \in Callers |-> NoDisp]
    /\ staff = [s \in Staff |-> NoStaff]
    /\ profile = BatchProfile
    /\ sched = [k \in Runs |-> NoSched]
    /\ creating = [b \in Sessions |-> NoCreating]

NextBatch ==
    \/ \E r \in Requests : EmergencyRequest(r, ReqCity, ReqBlood, 1)
    \/ \E r \in Requests : AdminSetCoordinates(r, Some(0))
    \/ MinutePassesUntil(MaxBatchClock)
    \/ Tick
    \/ \E order \in IterationOrders, r \in Requests, d \in Donors : TickFailing(order, r, d)
    \/ \E order \in IterationOrders, r \in Requests : TickCrashing(order, r)

SpecBatch == InitBatch /\ [][NextBatch]_vars

\* The life of one request: every view that writes a request, one at a time.
NextLifecycle ==
    \/ \E r \in Watched, u \in UnitsNeeded, e \in BOOLEAN :
         RecipientRequest(r, ReqCity, ReqBlood, u, e, FALSE)
    \/ \E r \in Watched, u \in UnitsNeeded, e \in BOOLEAN :
         EditRequest(r, ReqCity, ReqBlood, u, e, FALSE)
    \/ \E r \in Watched : CancelRequest(r)
    \/ \E r \in Watched : ApproveRequest(r)
    \/ \E r \in Watched : RejectRequest(r)
    \/ \E r \in Watched, s \in ResponseStatuses : DonorRespond(r, "dA", s)
    \/ \E r \in Watched, s \in {"ACCEPTED", "DECLINED"} : QuickRespond(r, "dB", s)
    \/ \E r \in Watched : GuestDonate(r)
    \/ \E r \in Watched, d \in Donors : DonationCreate(r, d, 1, clock)
    \/ \E r \in Watched, d \in Donors : VerifyDonation(r, d)

SpecLifecycle == Init /\ [][NextLifecycle]_vars

\* Two runs of the escalation command at once: a cron job that starts the
\* next run before the last one has ended.
OrgCity == << "Kathmandu" >>

NextOverlap ==
    \/ \E r \in Watched : RecipientRequest(r, OrgCity, ReqBlood, 1, TRUE, FALSE)
    \/ \E k \in Runs, r \in Watched : RunLoad(k, r)
    \/ \E k \in Runs : RunStageLogic(k)
    \/ MinutePassesUntil(MaxOverlapClock)

SpecOverlap == Init /\ [][NextOverlap]_vars

\* The city match over what donors type into the city of their profile.  dA is
\* a donor of Kathmandu; the city of dB varies, and so does the request's.
ProfileCities ==
    { << "Kathmandu" >>, << "KTM" >>, << "Asan", ",", "Kathmandu" >>,
      << "Kathmandu", "Valley" >>, << "Asan" >>, << "Patan" >>, << "Lalitpur" >>,
      << >> }
RequestCities ==
    { << "Kathmandu" >>, << "Asan", ",", "Kathmandu" >>, << "Asan" >>, << "Patan" >> }

InitCityMatch ==
    /\ clock = 0
    /\ req = [r \in Requests |-> NoReq]
    /\ esc = [r \in Requests |-> NoEsc]
    /\ pingLog = [r \in Requests |-> [d \in Donors |-> NoLog]]
    /\ response = [r \in Requests |-> [d \in Donors |-> "NONE"]]
    /\ donation = [r \in DonationKeys |-> [d \in Donors |-> NoDonation]]
    /\ points = [d \in Donors |-> 0]
    /\ hist = [r \in Requests |-> [d \in Donors |-> NoHist]]
    /\ schedNotes = [r \in Requests |-> NoNotes]
    /\ lastStep = "other"
    /\ disp = [p \in Callers |-> NoDisp]
    /\ staff = [s \in Staff |-> NoStaff]
    /\ \E city \in ProfileCities, g \in MatchBloods :
         profile = [d \in Donors |->
                      IF d = "dA"
                      THEN [city |-> << "KTM" >>, pos |-> Null, blood_group |-> g,
                            is_donor |-> TRUE, is_active |-> TRUE]
                      ELSE [city |-> city, pos |-> Null, blood_group |-> "O-",
                            is_donor |-> TRUE, is_active |-> TRUE]]
    /\ sched = [k \in Runs |-> NoSched]
    /\ creating = [b \in Sessions |-> NoCreating]

NextCityMatch ==
    \/ \E r \in Watched, city \in RequestCities, g \in MatchBloods :
         EmergencyRequest(r, city, g, 1)
    \/ \E r \in Watched : MinutePassesUntil(req[r].created_at + MaxMatchMinutes)
    \/ Tick

SpecCityMatch == InitCityMatch /\ [][NextCityMatch]_vars

\* The PingLog rows of a request over runs that end well and runs that raise
\* or crash.
NextLog ==
    \/ \E r \in Watched : EmergencyRequest(r, ReqCity, ReqBlood, 1)
    \/ \E r \in Watched : AdminSetCoordinates(r, Some(0))
    \/ MinutePassesUntil(MaxLogClock)
    \/ Tick
    \/ \E order \in IterationOrders, r \in Watched, d \in Donors : TickFailing(order, r, d)
    \/ \E order \in IterationOrders, r \in Watched : TickCrashing(order, r)

SpecLog == Init /\ [][NextLog]_vars

\* a minute passes once the window has passed
MinutePassesLate ==
    /\ clock >= MaxMinutes
    /\ MinutePassesUntil(MaxMinutes + MaxLateMinutes)

\* time goes on: minute by minute at the start and after the window, the
\* window in between in one step
TimePasses ==
    \/ MinutePassesUntil(MaxClock)
    \/ WindowPasses
    \/ MinutePassesLate

\* An open emergency request from its posting until after the window, with
\* runs that complete and runs that die in the stage logic.
NextBounded ==
    \/ \E r \in Watched : EmergencyRequest(r, ReqCity, ReqBlood, 1)
    \/ \E r \in Watched : AdminSetCoordinates(r, Some(0))
    \/ TimePasses
    \/ Tick
    \/ \E order \in IterationOrders, r \in Watched : TickCrashing(order, r)

\* a run of the command at a time when the window of a request it looks at
\* has passed
TickAfterWindow ==
    /\ \E r \in Requests : Selected(req[r]) /\ clock - req[r].created_at > MaxMinutes
    /\ Tick

\* Time goes on, and the periodic trigger keeps running the command to its
\* end, in particular after the window has passed.
SpecBounded ==
    Init /\ [][NextBounded]_vars /\ WF_vars(TimePasses) /\ WF_vars(TickAfterWindow)

\* Every view that acts on a request, between the runs of the command.
NextFrame ==
    \/ \E r \in Watched : RecipientRequest(r, ReqCity, ReqBlood, 1, TRUE, FALSE)
    \/ \E r \in Watched, s \in {"ACCEPTED", "DECLINED"} : DonorRespond(r, "dA", s)
    \/ \E r \in Watched, s \in {"ACCEPTED", "DELAYED"} : QuickRespond(r, "dB", s)
    \/ \E r \in Watched : GuestDonate(r)
    \/ \E r \in Watched : DonationCreate(r, "dB", 1, clock)
    \/ \E r \in Watched : VerifyDonation(r, "dB")
    \/ \E r \in Watched : CancelRequest(r)
    \/ \E r \in Watched : ApproveRequest(r)
    \/ \E r \in Watched : RejectRequest(r)
    \/ \E r \in Watched, e \in BOOLEAN : EditRequest(r, ReqCity, ReqBlood, 1, e, FALSE)
    \/ MinutePassesUntil(MaxFrameClock)
    \/ Tick

SpecFrame == Init /\ [][NextFrame]_vars

\* One run after the other, the LOOP branch call by call, while time goes on.
NextLoop ==
    \/ \E r \in Watched : EmergencyRequest(r, ReqCity, ReqBlood, 1)
    \/ \E r \in Watched : AdminSetCoordinates(r, Some(0))
    \/ \E r \in Watched : RunLoad("k1", r)
    \/ sched["k1"].state.stage # "LOOP" /\ RunStageLogic("k1")
    \/ LoopCityDispatch("k1")
    \/ LoopRadiusDispatch("k1")
    \/ MinutePassesUntil(MaxLoopClock)

SpecLoop == Init /\ [][NextLoop]_vars

\* The dispatch at the posting of a request and after it, over donors of the
\* city and of another one, near and far: dA of the request's city with any
\* blood group, dB a universal donor of either city at any distance.
InitCreate ==
    /\ clock = 0
    /\ req = [r \in Requests |-> NoReq]
    /\ esc = [r \in Requests |-> NoEsc]
    /\ pingLog = [r \in Requests |-> [d \in Donors |-> NoLog]]
    /\ response = [r \in Requests |-> [d \in Donors |-> "NONE"]]
    /\ donation = [k \in DonationKeys |-> [d \in Donors |-> NoDonation]]
    /\ points = [d \in Donors |-> 0]
    /\ hist = [r \in Requests |-> [d \in Donors |-> NoHist]]
    /\ schedNotes = [r \in Requests |-> NoNotes]
    /\ lastStep = "other"
    /\ disp = [p \in Callers |-> NoDisp]
    /\ staff = [s \in Staff |-> NoStaff]
    /\ \E g \in DonorBloods, city \in {<< "Kathmandu" >>, << "Patan" >>},
          pos \in DonorPositions :
         profile = [d \in Donors |->
                      IF d = "dA"
                      THEN [city |-> << "KTM" >>, pos |-> Some(0), blood_group |-> g,
                            is_donor |-> TRUE, is_active |-> TRUE]
                      ELSE [city |-> city, pos |-> pos, blood_group |-> "O-",
                            is_donor |-> TRUE, is_active |-> TRUE]]
    /\ sched = [k \in Runs |-> NoSched]
    /\ creating = [b \in Sessions |-> NoCreating]

SpecCreate == InitCreate /\ [][NextMatch]_vars

\* Donation forms posted at once, by one donor in two sessions or by two.
NextDonate ==
    \/ \E r \in Watched, u \in UnitsNeeded :
         RecipientRequest(r, ReqCity, ReqBlood, u, FALSE, TRUE)
    \/ \E b \in Sessions, r \in Watched, d \in Donors, u \in UnitsNeeded :
         DonationCheck(b, r, d, u)
    \/ \E b \in Sessions : DonationGet(b)
    \/ \E b \in Sessions : DonationInsert(b)
    \/ \E r \in Watched, d \in Donors : VerifyDonation(r, d)

SpecDonate == Init /\ [][NextDonate]_vars

\* ------------------------------------------------- claims on the scheduler

\* the stage order the escalation is documented to follow
StageOrder == << "CITY", "RADIUS_5", "RADIUS_10", "ORG", "LOOP" >>

StageIndex(stage) == CHOOSE i \in 1..Len(StageOrder) : StageOrder[i] = stage

Successor(stage) ==
    IF StageIndex(stage) = Len(StageOrder) THEN stage
    ELSE StageOrder[StageIndex(stage) + 1]

\* the stage a run finds: the stored one, CITY for a state it creates itself
StageFound(r) == IF esc[r].exists THEN esc[r].stage ELSE "CITY"

\* a run at this instant works on request r: the state is neither done nor in the future
Due(r) ==
    /\ ~(esc[r].exists /\ esc[r].is_done)
    /\ IF esc[r].exists /\ esc[r].next_run_at # Null
       THEN Val(esc[r].next_run_at) <= clock
       ELSE TRUE

AcceptedExists(r) == \E d \in Donors : response[r][d] = "ACCEPTED"
DonationExists(r) == \E d \in Donors : donation[r][d].exists
PastWindow(r) == clock - req[r].created_at > MaxMinutes

\* the state row of r after the step is the terminal one
DoneAfter(r) ==
    /\ esc'[r].exists
    /\ esc'[r].stage = "DONE"
    /\ esc'[r].is_done
    /\ esc'[r].next_run_at = Null

\* C1: every due run moves an open emergency request that has coordinates, no
\* ACCEPTED response and no donation exactly one hop along CITY, RADIUS_5,
\* RADIUS_10, ORG, LOOP, LOOP, ... whoever was or was not pinged, and leaves it
\* running; once the request is past the window the due run makes the state
\* DONE with next_run_at NULL.
C1_StageSequence ==
    [][\A r \in Requests :
         (Tick /\ Selected(req[r]) /\ HasGps(req[r]) /\ Due(r)
               /\ ~AcceptedExists(r) /\ ~DonationExists(r))
         => IF PastWindow(r) THEN DoneAfter(r)
            ELSE /\ esc'[r].stage = Successor(StageFound(r))
                 /\ ~esc'[r].is_done
                 /\ esc'[r].last_run_at = Some(clock)]_vars

\* a request went through the 5 km and 10 km stages and the ORG stage, and its
\* first LOOP run has re-pinged the city donor and the 10 km donor
C1_Witness ==
    \E r \in Requests :
        /\ Selected(req[r]) /\ HasGps(req[r])
        /\ ~AcceptedExists(r) /\ ~DonationExists(r) /\ ~PastWindow(r)
        /\ esc[r].stage = "LOOP"
        /\ esc[r].last_run_at = Some(clock)
        /\ pingLog[r]["dA"].stage = "CITY"
        /\ pingLog[r]["dA"].ping_count = 2
        /\ pingLog[r]["dA"].last_ping_at = Some(clock)
        /\ pingLog[r]["dB"].stage = "RADIUS_10"
        /\ pingLog[r]["dB"].ping_count = 2
        /\ pingLog[r]["dB"].last_ping_at = Some(clock)

\* C2: a due run on an open emergency request with an ACCEPTED response or a
\* donation makes the state DONE whatever the stage, and sends nothing.
C2_StopOnAcceptOrDonation ==
    [][\A r \in Requests :
         (Tick /\ Selected(req[r]) /\ esc[r].exists /\ Due(r)
               /\ (AcceptedExists(r) \/ DonationExists(r)))
         => /\ DoneAfter(r)
            /\ pingLog'[r] = pingLog[r]
            /\ hist'[r] = hist[r]
            /\ schedNotes'[r] = schedNotes[r]]_vars

\* the state of a request accepted after its 5 km ping is DONE
C2_Witness ==
    \E r \in Requests :
        /\ esc[r].is_done /\ esc[r].stage = "DONE" /\ esc[r].next_run_at = Null
        /\ esc[r].last_run_at = Some(clock)
        /\ response[r]["dA"] = "ACCEPTED"
        /\ pingLog[r]["dB"].exists
        /\ ~DonationExists(r)
        /\ ~PastWindow(r)

\* C3 as stated: a run at or after next_run_at makes the state of a closed
\* emergency request DONE.
C3_ClosedRequestBecomesDone ==
    [][\A r \in Requests :
         (Tick /\ req[r].exists /\ req[r].is_emergency /\ Closed(req[r])
               /\ esc[r].exists /\ Due(r))
         => DoneAfter(r)]_vars

\* C4: a due run on a request past the window makes the state DONE, pings
\* nobody and leaves the request as it is; no run changes a request.
C4_WindowCutoff ==
    [][\A r \in Requests :
         /\ (Tick /\ Selected(req[r]) /\ Due(r) /\ PastWindow(r))
            => (DoneAfter(r) /\ pingLog'[r] = pingLog[r] /\ hist'[r] = hist[r])
         /\ Tick => req'[r] = req[r]]_vars

\* the window cut an open request's escalation off
C4_Witness ==
    \E r \in Requests :
        /\ Selected(req[r])
        /\ ~AcceptedExists(r) /\ ~DonationExists(r)
        /\ PastWindow(r)
        /\ esc[r].is_done /\ esc[r].stage = "DONE" /\ esc[r].next_run_at = Null
        /\ esc[r].last_run_at = Some(clock)

\* ------------------------------------------------- claims on the dispatcher

Pairs == Requests \X Donors

\* the minutes between the last push to donor d for request r and now, in seconds
SecondsSincePush(r, d) == (clock - Val(hist[r][d].last_push_at)) * 60

\* the seconds between the PingLog row's last_ping_at and now
SecondsSincePing(r, d) == (clock - Val(pingLog[r][d].last_ping_at)) * 60

\* the step pushes a ping to donor d for request r
Pushed(r, d) == hist'[r][d].pushes > hist[r][d].pushes

\* the step neither pushes to donor d for request r nor touches the PingLog row
Untouched(r, d) ==
    /\ hist'[r][d].pushes = hist[r][d].pushes
    /\ pingLog'[r][d] = pingLog[r][d]

\* the run that just ended was a LOOP run on r, which dispatches to the city
\* donors and, with coordinates, to the 10 km donors
LoopRunJustEnded(r) ==
    /\ lastStep = "run"
    /\ Selected(req[r])
    /\ esc[r].stage = "LOOP"
    /\ esc[r].last_run_at = Some(clock)
    /\ pingLog[r]["dA"].stage = "CITY"

\* C5: once a response of any status exists for a request and a donor, no step
\* of any stage pushes a ping to that donor for the request or changes the
\* PingLog row of the pair.
C5_NoPingAfterResponse ==
    [][\A pr \in Pairs :
         response[pr[1]][pr[2]] # "NONE" => Untouched(pr[1], pr[2])]_vars

\* a LOOP run has pinged dB again and left out dA, whose cooldown had passed
\* and who had been pinged once, because dA answered PENDING
C5_Witness ==
    \E r \in Requests :
        /\ LoopRunJustEnded(r)
        /\ response[r]["dA"] = "PENDING"
        /\ response[r]["dB"] = "NONE"
        /\ pingLog[r]["dA"].ping_count = 1
        /\ SecondsSincePing(r, "dA") >= CooldownSeconds
        /\ pingLog[r]["dB"].last_ping_at = Some(clock)
        /\ pingLog[r]["dB"].ping_count = 2

C8_OneNotificationPerPair ==
    [][/\ \A pr \in Pairs : hist'[pr[1]][pr[2]].notifs <= 1
       /\ \A p \in Callers :
            (SendPingCreate(p) /\ disp[p].pc = "create"
                 /\ pingLog[disp[p].r][Head(disp[p].todo)].exists)
            => /\ disp'[p].pc = "update"
               /\ ~disp'[p].created
               /\ hist' = hist
       /\ \A p \in Callers :
            (disp[p].pc = "notify" /\ disp'[p].pc = "loop" /\ ~disp[p].created)
            => hist' = hist]_vars

\* both executions pushed to dB, p2 lost the race for dB's row, both returned,
\* and dB has one notification and a row that counts two pings
C8_Witness ==
    \E r \in Requests :
        /\ disp["p1"].pc = "idle" /\ disp["p1"].sent > 0 /\ ~disp["p1"].lost
        /\ disp["p2"].pc = "idle" /\ disp["p2"].sent > 0 /\ disp["p2"].lost
        /\ disp["p1"].now = disp["p2"].now
        /\ hist[r]["dB"].pushes = 2
        /\ hist[r]["dB"].notifs = 1
        /\ pingLog[r]["dB"].ping_count = 2

\* ------------------------------------------------- claims on verification

\* the step verifies the donation of donor d for request r
Verifies(r, d) ==
    /\ donation[r][d].exists
    /\ donation[r][d].status # "VERIFIED"
    /\ donation'[r][d].status = "VERIFIED"

\* the units of the request's donations that are VERIFIED after the step
RECURSIVE VerifiedSumAfter(_, _)
VerifiedSumAfter(r, ds) ==
    IF ds = {} THEN 0
    ELSE LET d == CHOOSE x \in ds : TRUE
         IN  (IF donation'[r][d].exists /\ donation'[r][d].status = "VERIFIED"
              THEN donation'[r][d].units ELSE 0)
             + VerifiedSumAfter(r, ds \ {d})

\* C9: a step that verifies a donation makes the request FULFILLED, inactive
\* and dated exactly when the VERIFIED units reach units_needed; otherwise it
\* makes an OPEN request IN_PROGRESS and leaves any other request as it is.
C9_FulfilledIffUnitsReached ==
    [][\A pr \in Pairs :
         Verifies(pr[1], pr[2]) =>
           IF VerifiedSumAfter(pr[1], Donors) >= req[pr[1]].units_needed
           THEN req'[pr[1]] = [req[pr[1]] EXCEPT !.status = "FULFILLED",
                                                 !.is_active = FALSE,
                                                 !.fulfilled_at = Some(clock)]
           ELSE req'[pr[1]] = [req[pr[1]] EXCEPT !.status =
                                 IF @ = "OPEN" THEN "IN_PROGRESS" ELSE @]]_vars

\* a request for 2 units is FULFILLED by two verified donations of 1 unit
C9_Witness ==
    \E r \in Requests :
        /\ req[r].units_needed = 2
        /\ \A d \in Donors : /\ donation[r][d].exists
                             /\ donation[r][d].status = "VERIFIED"
                             /\ donation[r][d].units = 1
        /\ req[r].status = "FULFILLED"
        /\ ~req[r].is_active
        /\ req[r].fulfilled_at # Null

\* the points the verified donations of donor d are worth
RECURSIVE PointsEarned(_, _)
PointsEarned(d, rs) ==
    IF rs = {} THEN 0
    ELSE LET r == CHOOSE x \in rs : TRUE
         IN  (IF donation[r][d].exists /\ donation[r][d].status = "VERIFIED"
              THEN BasePoints + PointsPerUnit * donation[r][d].units ELSE 0)
             + PointsEarned(d, rs \ {r})

\* C10 as stated: whatever the verification requests and their order, a donor
\* holds 150 + 20 x units points for each verified donation, awarded once.
C10_PointsAwardedOnce ==
    \A d \in Donors : points[d] = PointsEarned(d, Requests)

\* --------------------------------------------- claims on the request's life

\* the status changes the request's life is documented to consist of
AllowedStatusMoves ==
    { << "OPEN", "IN_PROGRESS" >>, << "IN_PROGRESS", "FULFILLED" >>,
      << "OPEN", "CANCELLED" >>, << "IN_PROGRESS", "CANCELLED" >> }

\* C11 as stated: whatever the views called, a request's status changes only
\* OPEN to IN_PROGRESS, IN_PROGRESS to FULFILLED, or OPEN / IN_PROGRESS to
\* CANCELLED; FULFILLED and CANCELLED are never left.
C11_StatusMovesForwardOnly ==
    [][\A r \in Requests :
         (req[r].exists /\ req'[r].status # req[r].status)
         => << req[r].status, req'[r].status >> \in AllowedStatusMoves]_vars

\* C12 as stated: in every state a REJECTED request is CANCELLED and inactive.
C12_RejectedIsCancelled ==
    \A r \in Requests :
        (req[r].exists /\ req[r].verification_status = "REJECTED")
        => (req[r].status = "CANCELLED" /\ ~req[r].is_active)

\* ---------------------------------------------------- claims on the matcher

MatchScopes == {"CITY", "RADIUS_5", "RADIUS_10"}
UnknownGroups == {"X", ""}

\* donor d has no VERIFIED donation given less than 90 days before the instant
NotInCooldown(d, now) ==
    \A k \in DonationKeys :
        (donation[k][d].exists /\ donation[k][d].status = "VERIFIED")
        => now >= donation[k][d].donated_at + EligibilityDays * MinutesPerDay

\* donor d is a candidate for a request of the blood group at the instant
Candidate(d, group, now) ==
    /\ profile[d].is_active
    /\ profile[d].is_donor
    /\ NotInCooldown(d, now)
    /\ group \in DOMAIN COMPATIBLE_DONORS
    /\ profile[d].blood_group \in COMPATIBLE_DONORS[group]

\* C13: every donor the city match or a radius match returns for a request,
\* and every donor pinged for it, is active, flagged as donor, out of the 90
\* days of the latest verified donation and of a blood group compatible with
\* the request's; a request for O- matches no A+ donor, and a request with an
\* unknown blood group matches nobody.
C13_MatchedAreCandidates ==
    \A r \in Requests :
        req[r].exists =>
          /\ \A scope \in MatchScopes :
               \A d \in StageDonors(req[r], scope, donation, clock) :
                  /\ Candidate(d, req[r].blood_group, clock)
                  /\ req[r].blood_group = "O-" => profile[d].blood_group # "A+"
          /\ \A d \in Donors :
               hist[r][d].pushes > 0
               => Candidate(d, req[r].blood_group, Val(hist[r][d].last_push_at))
          /\ \A g \in UnknownGroups, scope \in MatchScopes :
               StageDonors([req[r] EXCEPT !.blood_group = g], scope, donation, clock) = {}

\* a run pinged the O- donor dB for an O- request and left out dA, an active
\* A+ donor of the request's city and place who never donated
C13_Witness ==
    \E r \in Requests :
        /\ lastStep = "run"
        /\ req[r].blood_group = "O-"
        /\ profile["dA"].blood_group = "A+"
        /\ profile["dA"].is_active /\ profile["dA"].is_donor
        /\ ~donation[NoRequest]["dA"].exists
        /\ HasGps(req[r])
        /\ hist[r]["dA"].pushes = 0
        /\ hist[r]["dB"].pushes > 0

\* ------------------------------------------------- claims on eligibility

\* the donated_at of donor d's VERIFIED donations
VerifiedTimes(d) ==
    { donation[k][d].donated_at :
        k \in { x \in DonationKeys : donation[x][d].exists
                                     /\ donation[x][d].status = "VERIFIED" } }

\* C14: a donor without a VERIFIED donation has no next-eligible date and is
\* eligible; otherwise the next-eligible date is 90 days after the greatest
\* donated_at among the VERIFIED donations, COMPLETED and REJECTED ones left
\* aside, and the donor is eligible exactly from that instant on.
C14_EligibleFromNinetyDays ==
    \A d \in Donors :
        IF VerifiedTimes(d) = {}
        THEN /\ next_eligible_datetime(donation, d) = Null
             /\ is_eligible(donation, d, clock)
        ELSE \E t \in VerifiedTimes(d) :
               /\ \A u \in VerifiedTimes(d) : u <= t
               /\ next_eligible_datetime(donation, d) = Some(t + 90 * 24 * 60)
               /\ is_eligible(donation, d, clock) <=> clock >= t + 90 * 24 * 60

\* dA has a VERIFIED donation of minute 0 and a later VERIFIED one of minute 1,
\* dB a VERIFIED one of minute 2 and has answered: it is the instant 90 days
\* after minute 2, the first at which dB may answer
C14_Witness ==
    \E r \in Requests :
        /\ donation[NoRequest]["dA"].exists
        /\ donation[NoRequest]["dA"].status = "VERIFIED"
        /\ donation[NoRequest]["dA"].donated_at = 0
        /\ donation[r]["dA"].exists /\ donation[r]["dA"].status = "VERIFIED"
        /\ donation[NoRequest]["dB"].exists
        /\ donation[NoRequest]["dB"].status = "VERIFIED"
        /\ donation[NoRequest]["dB"].donated_at = 2
        /\ response[r]["dB"] = "ACCEPTED"
        /\ clock = EligibilityMinutes + 2

\* --------------------------------------------- claims on the city normalizer

\* C15: canonical_city applied to its own result returns that result, for
\* every city typed in any case with any mix of the separators and aliases.
C15_CanonicalIdempotent ==
    \A r \in Requests :
        req[r].exists
        => canonical_city(canonical_city(req[r].location_city))
             = canonical_city(req[r].location_city)

\* a request for "Asan / KTM", which is not its own canonical city
C15_Witness ==
    \E r \in Requests :
        /\ req[r].exists
        /\ req[r].location_city = << "Asan", "/", "KTM" >>
        /\ canonical_city(req[r].location_city) = << "kathmandu" >>

\* C16: every alias of a city has the city's canonical key as its own, and the
\* canonical key is one of the aliases; "KTM" and "Kathmandu Valley" both
\* have the canonical key "kathmandu".
C16_AliasesShareCanonical ==
    /\ canonical_city(<< "KTM" >>) = << "kathmandu" >>
    /\ canonical_city(<< "Kathmandu", "Valley" >>) = << "kathmandu" >>
    /\ \A r \in Requests :
         req[r].exists
         => /\ \A a \in city_aliases(req[r].location_city) :
                 canonical_city(a) = canonical_city(req[r].location_city)
            /\ canonical_city(req[r].location_city) \in city_aliases(req[r].location_city)

\* a request for "Asan | Patan": its aliases are the three of lalitpur
C16_Witness ==
    \E r \in Requests :
        /\ req[r].exists
        /\ req[r].location_city = << "Asan", "|", "Patan" >>
        /\ city_aliases(req[r].location_city)
             = { << "lalitpur" >>, << "patan" >>, << "lalitpur", "city" >> }

\* ------------------------------------------------ claims on failing runs

\* the step leaves request x as a run on x alone would have left it
ProcessedAsAlone(x) ==
    /\ esc'[x] = RunOn(x, clock).esc
    /\ pingLog'[x] = RunOn(x, clock).st.logs
    /\ hist'[x] = RunOn(x, clock).st.h
    /\ schedNotes'[x] = RunOn(x, clock).notes

\* the step is a run that raised or crashed while it worked on request r
BrokeAt(order, r) ==
    \/ \E d \in Donors : TickFailing(order, r, d)
    \/ TickCrashing(order, r)

\* the step wrote no PingLog row and no notification for request r
NothingWritten(r) ==
    /\ pingLog'[r] = pingLog[r]
    /\ \A d \in Donors : hist'[r][d].notifs = hist[r][d].notifs
    /\ schedNotes'[r] = schedNotes[r]

\* C17 as stated: when the push for one request raises during a run, every
\* other request of the batch is advanced as if the failing one were not there.
C17_OthersStillProcessed ==
    [][\A order \in IterationOrders, r \in Requests, d \in Donors :
         TickFailing(order, r, d)
         => \A x \in Requests \ {r} : ProcessedAsAlone(x)]_vars

\* C18 as stated: when the push to one donor raises, the other donors the
\* dispatch would have pinged are pinged all the same, and the request's stage
\* advances as in a run without the failure.
C18_PushFailureIsolated ==
    [][\A order \in IterationOrders, r \in Requests, d \in Donors :
         TickFailing(order, r, d)
         => /\ \A x \in Donors \ {d} :
                 RunOn(r, clock).st.h[x].pushes > hist[r][x].pushes => Pushed(r, x)
            /\ esc'[r].stage = RunOn(r, clock).esc.stage]_vars

WithoutCoordinates(r) ==
    /\ req'[r].exists
    /\ ~HasGps(req[r])
    /\ ~HasGps(req'[r])

\* a due run works through the stage logic on request r
StageLogicRuns(r) ==
    /\ Tick
    /\ Selected(req[r])
    /\ Due(r)
    /\ ~AcceptedExists(r) /\ ~DonationExists(r) /\ ~PastWindow(r)

\* the stage after the one found, for a request without coordinates
SuccessorWithoutCoordinates(stage) ==
    CASE stage = "CITY" -> "ORG"
      [] stage = "ORG" -> "LOOP"
      [] stage = "LOOP" -> "LOOP"
      [] OTHER -> "ORG"

\* C20: while a request has no coordinates, a due run moves it from CITY to
\* ORG, from ORG to LOOP and from LOOP to LOOP, no step puts its state into
\* RADIUS_5 or RADIUS_10, and every push for it, at creation and in a LOOP run
\* alike, goes to a donor of the city scope and is logged at stage CITY.
C20_NoCoordinatesNoRadius ==
    [][\A r \in Requests :
         WithoutCoordinates(r)
         => /\ StageLogicRuns(r)
                => esc'[r].stage = SuccessorWithoutCoordinates(StageFound(r))
            /\ esc'[r].stage \in {"RADIUS_5", "RADIUS_10"}
                => esc'[r].stage = esc[r].stage
            /\ \A d \in Donors :
                 (Pushed(r, d) \/ pingLog'[r][d] # pingLog[r][d])
                 => /\ d \in match_city(req'[r], donation, clock)
                    /\ pingLog'[r][d].stage = "CITY"]_vars

\* a request without coordinates stands at LOOP after a LOOP run that pinged the
\* city donor dA a second time; dB, who is within 10 km of where the request
\* would be, has never been pinged
C20_Witness ==
    \E r \in Requests :
        /\ lastStep = "run"
        /\ Selected(req[r]) /\ ~HasGps(req[r])
        /\ esc[r].stage = "LOOP"
        /\ esc[r].last_run_at = Some(clock)
        /\ pingLog[r]["dA"].stage = "CITY"
        /\ pingLog[r]["dA"].ping_count = 2
        /\ pingLog[r]["dA"].last_ping_at = Some(clock)
        /\ ~pingLog[r]["dB"].exists
        /\ hist[r]["dB"].pushes = 0
        /\ profile["dB"].pos # Null


\* ------------------------------------------------ claims on overlapping runs

\* the stages in the order an escalation goes through them, DONE last
StageRank(stage) ==
    CASE stage = "CITY" -> 1
      [] stage = "RADIUS_5" -> 2
      [] stage = "RADIUS_10" -> 3
      [] stage = "ORG" -> 4
      [] stage = "LOOP" -> 5
      [] OTHER -> 6

\* run k commits the stage logic of its iteration in this step
CommitsStageLogic(k) == sched[k].pc = "atomic" /\ sched'[k].pc = "idle"

\* the state row of the iteration of run k is no longer the one run k loaded:
\* another run has executed the stage logic for it
Overtaken(k) == esc[sched[k].r] # sched[k].state

\* C21 as stated: when runs overlap, a run whose state row another run has
\* worked on in the meantime sends nothing and leaves the state alone, no step
\* takes a stage back, and no member of an organization gets the ORG-stage
\* notification of a request twice.
C21_OneRunPerDueState ==
    [][/\ \A k \in Runs :
            (CommitsStageLogic(k) /\ Overtaken(k))
            => /\ esc'[sched[k].r] = esc[sched[k].r]
               /\ hist'[sched[k].r] = hist[sched[k].r]
               /\ schedNotes'[sched[k].r] = schedNotes[sched[k].r]
       /\ \A r \in Requests :
            /\ StageRank(esc'[r].stage) >= StageRank(esc[r].stage)
            /\ \A m \in Members : schedNotes'[r][m] <= 1]_vars


\* C22 as stated: also when two executions of the dispatcher for a request
\* interleave, a push to a donor comes at least the cooldown after the push
\* before it, and a donor gets at most the maximum of pushes for the request.
C22_InterleavedPingsRespectLimits ==
    [][\A r \in Requests : \A d \in Donors :
         /\ hist'[r][d].pushes <= MaxRepings
         /\ IF Pushed(r, d) /\ hist[r][d].last_push_at # Null
            THEN SecondsSincePush(r, d) >= CooldownSeconds
            ELSE TRUE]_vars


\* --------------------------------------------------- claims on donations

\* session b takes a step of donation_create_view
Moves(b) == creating'[b] # creating[b]

\* the request and the donor of the execution session b is in, or starts
PairOf(b) ==
    IF creating[b].pc = "idle"
    THEN << creating'[b].r, creating'[b].d >>
    ELSE << creating[b].r, creating[b].d >>

\* the pair of the execution of session b has a donation already
HasDonation(pr) == donation[pr[1]][pr[2]].exists

\* C23: no request and donor ever have more than one donation row; a step of
\* a donation create for a pair that has a row, whether the form is opened
\* after the first donation or posted at the same time, ends with "already
\* recorded" and leaves the donations, the request and the points as they are.
C23_OneDonationPerPair ==
    [][/\ \A r \in Requests : \A d \in Donors : donation'[r][d].rows <= 1
       /\ \A b \in Sessions :
            (Moves(b) /\ HasDonation(PairOf(b)))
            => /\ creating'[b].pc = "idle"
               /\ creating'[b].outcome = "already"
               /\ UNCHANGED << donation, req, points >>]_vars

\* two sessions of one donor posted the form for the same request at once:
\* one recorded the donation, the INSERT of the other met its row
C23_Witness ==
    /\ creating["b1"].pc = "idle" /\ creating["b1"].outcome = "recorded"
    /\ creating["b2"].pc = "idle" /\ creating["b2"].outcome = "already"
    /\ creating["b2"].lost
    /\ creating["b1"].r = creating["b2"].r
    /\ creating["b1"].d = creating["b2"].d
    /\ creating["b1"].units # creating["b2"].units
    /\ donation[creating["b1"].r][creating["b1"].d].rows = 1
    /\ donation[creating["b1"].r][creating["b1"].d].units = creating["b1"].units


\* ----------------------------------------------- claims on the city match

\* the donors whose profile city has the canonical key of the request's city
SameCityKey(rq) ==
    { d \in Donors : canonical_city(profile[d].city) = canonical_city(rq.location_city) }

\* C24 as stated: the city match of a request returns exactly the candidate
\* donors whose profile city canonicalizes to the key of the request's city.
C24_CityMatchByCanonicalKey ==
    \A r \in Requests :
        req[r].exists
        => match_city(req[r], donation, clock)
             = { d \in SameCityKey(req[r]) : Candidate(d, req[r].blood_group, clock) }


\* --------------------------------------------- claims on the radius match

Radii == {Radius5, Radius10}

\* donor d has coordinates, at most km from the place p
WithinKm(d, p, km) ==
    /\ profile[d].pos # Null
    /\ \E x \in 0..km : \/ Val(profile[d].pos) = p + x
                         \/ Val(profile[d].pos) + x = p

\* C25: the radius match of a request with coordinates returns exactly the
\* candidate donors that have coordinates at most the radius away, the donors
\* at exactly the radius included; for a request without coordinates it
\* returns nobody; the 5 km match is part of the 10 km match.
C25_RadiusMatchExact ==
    \A r \in Requests :
        req[r].exists
        => /\ \A km \in Radii :
                match_radius(req[r], km, donation, clock)
                  = IF req[r].pos = Null THEN {}
                    ELSE { d \in Donors :
                             /\ Candidate(d, req[r].blood_group, clock)
                             /\ WithinKm(d, Val(req[r].pos), km) }
           /\ match_radius(req[r], Radius5, donation, clock)
                \subseteq match_radius(req[r], Radius10, donation, clock)

\* a run on a request with coordinates pinged dB, a donor of another city at
\* exactly 10 km, at the 10 km stage and not at the 5 km stage; dA at the
\* request's place is in both matches
C25_Witness ==
    \E r \in Requests :
        /\ lastStep = "run"
        /\ HasGps(req[r])
        /\ profile["dB"].city = << "Patan" >>
        /\ profile["dB"].pos = Some(Radius10)
        /\ match_radius(req[r], Radius5, donation, clock) = {"dA"}
        /\ match_radius(req[r], Radius10, donation, clock) = {"dA", "dB"}
        /\ pingLog[r]["dB"].stage = "RADIUS_10"
        /\ hist[r]["dB"].pushes = 1


\* ------------------------------------------- claims on the combined match

\* C26: the combined match of a request is its city match if that has a
\* donor, else its 5 km match if that has a donor, else its 10 km match; for
\* a request without coordinates whose city match is empty it is empty.
C26_FirstNonEmptyTier ==
    \A r \in Requests :
        req[r].exists
        => /\ match_city_then_radius(req[r], donation, clock)
                = IF match_city(req[r], donation, clock) # {}
                  THEN match_city(req[r], donation, clock)
                  ELSE IF match_radius(req[r], Radius5, donation, clock) # {}
                  THEN match_radius(req[r], Radius5, donation, clock)
                  ELSE match_radius(req[r], Radius10, donation, clock)
           /\ (req[r].pos = Null /\ match_city(req[r], donation, clock) = {})
                => match_city_then_radius(req[r], donation, clock) = {}

\* a request with coordinates whose city match and 5 km match are empty, dA not
\* being a candidate: the combined match is the 10 km match, dB of another
\* city at exactly 10 km, whom the 10 km stage of a run has pinged
C26_Witness ==
    \E r \in Requests :
        /\ lastStep = "run"
        /\ HasGps(req[r])
        /\ profile["dB"].city = << "Patan" >>
        /\ profile["dB"].pos = Some(Radius10)
        /\ ~Candidate("dA", req[r].blood_group, clock)
        /\ match_city(req[r], donation, clock) = {}
        /\ match_radius(req[r], Radius5, donation, clock) = {}
        /\ match_city_then_radius(req[r], donation, clock) = {"dB"}
        /\ pingLog[r]["dB"].stage = "RADIUS_10"


\* ------------------------------------------------ claims on the ORG stage

\* the users with an active ADMIN, VERIFIER or STAFF membership in an approved
\* organization whose city has the canonical key of the city
MembersOfCityKey(city) ==
    { m.user : m \in { x \in Memberships :
                         /\ x.is_active
                         /\ x.role \in {"ADMIN", "VERIFIER", "STAFF"}
                         /\ \E o \in Organizations :
                              /\ o.id = x.org
                              /\ o.status = "APPROVED"
                              /\ canonical_city(o.city) = canonical_city(city) } }

\* C27 as stated: a due run on a request at stage ORG writes one notification
\* for each member of the approved organizations of the request's canonical
\* city and none for anybody else, pings no donor, and leaves the state at
\* LOOP, running, due again after the loop interval.
C27_OrgStageNotifiesCityMembers ==
    [][\A r \in Requests :
         (StageLogicRuns(r) /\ StageFound(r) = "ORG")
         => /\ \A u \in NotifiedUsers :
                 schedNotes'[r][u] =
                   schedNotes[r][u]
                   + (IF u \in MembersOfCityKey(req[r].location_city) THEN 1 ELSE 0)
            /\ hist'[r] = hist[r]
            /\ pingLog'[r] = pingLog[r]
            /\ esc'[r].stage = "LOOP"
            /\ ~esc'[r].is_done
            /\ esc'[r].next_run_at = Some(clock + LoopIntervalMinutes)]_vars


\* ---------------------------------------------- claims on what a run skips

\* the state row of r is done, or due later than now
DoneOrWaiting(r) ==
    /\ esc[r].exists
    /\ \/ esc[r].is_done
       \/ esc[r].next_run_at # Null /\ Val(esc[r].next_run_at) > clock

\* the stage changes one run may make
OneStageMoves ==
    { << "CITY", "RADIUS_5" >>, << "CITY", "ORG" >>, << "RADIUS_5", "RADIUS_10" >>,
      << "RADIUS_5", "ORG" >>, << "RADIUS_10", "ORG" >>, << "ORG", "LOOP" >> }
    \cup { << stage, "DONE" >> : stage \in Stages \ {"DONE"} }

\* C28: a run leaves the state row, the PingLog rows, the pushes and the
\* notifications of a request alone when its state is done or due later than
\* now; so a stage changes by one move of the stage logic at a time and only
\* when the state is due, and a done state never changes again.
C28_SkipsDoneAndWaiting ==
    [][\A r \in Requests :
         /\ (Tick /\ DoneOrWaiting(r))
            => /\ esc'[r] = esc[r]
               /\ pingLog'[r] = pingLog[r]
               /\ hist'[r] = hist[r]
               /\ schedNotes'[r] = schedNotes[r]
         /\ esc'[r].stage # esc[r].stage
            => /\ << esc[r].stage, esc'[r].stage >> \in OneStageMoves
               /\ Due(r)
         /\ esc[r].is_done => esc'[r] = esc[r]]_vars

\* a request got its coordinates right after the run that took it from CITY to
\* ORG, and a second run in the same minute has left it waiting at ORG
C28_Witness ==
    \E r \in Requests :
        /\ lastStep = "run"
        /\ Selected(req[r])
        /\ HasGps(req[r])
        /\ ~AcceptedExists(r) /\ ~DonationExists(r)
        /\ esc[r].stage = "ORG"
        /\ esc[r].last_run_at = Some(clock)
        /\ esc[r].next_run_at = Some(clock + StageMinutes)
        /\ clock = req[r].created_at


\* ------------------------------------------ claims on what a run looks at

\* request r is an active emergency request, OPEN or IN_PROGRESS, not REJECTED
Qualifies(r) ==
    /\ req[r].exists
    /\ req[r].is_emergency = TRUE
    /\ req[r].is_active = TRUE
    /\ req[r].status = "OPEN" \/ req[r].status = "IN_PROGRESS"
    /\ req[r].verification_status # "REJECTED"

\* C29: a run creates no state row, pushes no ping and writes no notification
\* for a request that does not qualify when the run starts; a state row comes
\* into being only in a run on a qualifying request, which works on it at once
\* as a CITY state due now, and a request that has a state row keeps it.
C29_OnlyQualifyingRequests ==
    [][\A r \in Requests :
         /\ (Tick /\ ~Qualifies(r))
            => /\ esc'[r] = esc[r]
               /\ pingLog'[r] = pingLog[r]
               /\ hist'[r] = hist[r]
               /\ schedNotes'[r] = schedNotes[r]
         /\ (~esc[r].exists /\ esc'[r].exists)
            => /\ Tick
               /\ Qualifies(r)
               /\ esc'[r].last_run_at = Some(clock)
               /\ esc'[r].stage \in {"RADIUS_5", "ORG", "DONE"}
         /\ esc[r].exists => esc'[r].exists]_vars

\* a run created the state of a request at its first minute and took it to
\* ORG; the request was cancelled, and the run of a later minute has left
\* the state as it was
C29_Witness ==
    \E r \in Requests :
        /\ lastStep = "run"
        /\ req[r].is_emergency
        /\ req[r].status = "CANCELLED"
        /\ esc[r].exists
        /\ esc[r].stage = "ORG"
        /\ esc[r].last_run_at = Some(req[r].created_at)
        /\ esc[r].next_run_at # Null
        /\ Val(esc[r].next_run_at) <= clock


\* ------------------------------------------------ claims on the PingLog rows

\* the pushes the dispatch rows `after` hold more than the rows `before`
RECURSIVE PushesAdded(_, _, _)
PushesAdded(before, after, ds) ==
    IF ds = {} THEN 0
    ELSE LET d == CHOOSE x \in ds : TRUE
         IN  (after[d].pushes - before[d].pushes) + PushesAdded(before, after, ds \ {d})

\* what push_ping_stage(req, scope) would do to the rows of request r now
StageDispatch(r, scope) ==
    push_ping_stage([logs |-> pingLog[r], h |-> hist[r], sent |-> 0],
                    req[r], response[r], donation, scope, clock)

\* the count a dispatch returns is the number of pushes it emits
ReturnsPushCount(r, res) == res.sent = PushesAdded(hist[r], res.h, Donors)

\* C30 as stated: in every state the PingLog row of a request and a donor
\* exists exactly when the donor has been pushed a ping for the request, counts
\* the pushes, and carries the stage and the time of the latest push; a
\* dispatch returns the number of pushes it emits.
C30_PingLogMirrorsPushes ==
    \A r \in Requests :
        /\ \A d \in Donors :
             /\ pingLog[r][d].exists <=> hist[r][d].pushes > 0
             /\ pingLog[r][d].ping_count = hist[r][d].pushes
             /\ pingLog[r][d].exists
                => /\ pingLog[r][d].stage = hist[r][d].last_stage
                   /\ pingLog[r][d].last_ping_at = hist[r][d].last_push_at
        /\ req[r].exists
           => \A scope \in MatchScopes : ReturnsPushCount(r, StageDispatch(r, scope))

\* C30, amended: a dispatch that is committed writes the row of each donor it
\* pushes to, created with count 1, else the count plus 1, with the stage and
\* the time of that push, and touches no other row; a run that raises or
\* crashes leaves the rows as they were, its pushes being out; so a row exists
\* only for a donor who was pushed to and never counts more than the pushes.
\* A dispatch returns the number of pushes it emits.
C30_PingLogCountsCommittedPushes ==
    [][\A r \in Requests :
         /\ \A d \in Donors :
              /\ pingLog'[r][d] =
                   IF Pushed(r, d) /\ lastStep' # "failed"
                   THEN [exists |-> TRUE, stage |-> hist'[r][d].last_stage,
                         last_ping_at |-> Some(clock),
                         ping_count |-> pingLog[r][d].ping_count + 1]
                   ELSE pingLog[r][d]
              /\ Pushed(r, d) => hist'[r][d].last_push_at = Some(clock)
              /\ pingLog'[r][d].ping_count <= hist'[r][d].pushes
              /\ pingLog'[r][d].exists => hist'[r][d].pushes > 0
         /\ req[r].exists
            => \A scope \in MatchScopes : ReturnsPushCount(r, StageDispatch(r, scope))]_vars

\* dA was pinged when the request was posted, pushed to again by a LOOP run
\* that did not commit, and pinged a second time by the LOOP run after it:
\* three pushes, a row that counts two
C30_Witness ==
    \E r \in Requests :
        /\ lastStep = "run"
        /\ esc[r].stage = "LOOP"
        /\ esc[r].last_run_at = Some(clock)
        /\ hist[r]["dA"].pushes = 3
        /\ pingLog[r]["dA"].ping_count = 2
        /\ pingLog[r]["dA"].stage = "CITY"
        /\ pingLog[r]["dA"].last_ping_at = Some(clock)


\* --------------------------------------- claims on the end of an escalation

\* a due run finds the state of request r in LOOP and nothing that stops it
LoopRunDue(r) ==
    /\ Tick
    /\ Selected(req[r])
    /\ esc[r].exists /\ esc[r].stage = "LOOP"
    /\ Due(r)
    /\ ~AcceptedExists(r) /\ ~DonationExists(r)

\* the state row of r is the terminal one
IsDone(r) == esc[r].exists /\ esc[r].is_done /\ esc[r].stage = "DONE"

\* C31: a due LOOP run on an open emergency request repeats LOOP, one loop
\* interval later, while the age of the request is within the window, and the
\* first due run after the window makes the state DONE without a ping; with
\* time going on and runs that keep coming, the state of every open emergency
\* request is eventually DONE.
C31_EscalationBounded ==
    /\ [][\A r \in Requests :
            LoopRunDue(r)
            => IF PastWindow(r)
               THEN DoneAfter(r) /\ hist'[r] = hist[r]
               ELSE /\ esc'[r].stage = "LOOP"
                    /\ ~esc'[r].is_done
                    /\ esc'[r].next_run_at = Some(clock + LoopIntervalMinutes)]_vars
    /\ \A r \in Watched : Selected(req[r]) ~> IsDone(r)

\* the LOOP stage re-pinged dA within the window; the first run after the
\* window ended the escalation of the still open request
C31_Witness ==
    \E r \in Requests :
        /\ Selected(req[r])
        /\ ~AcceptedExists(r) /\ ~DonationExists(r)
        /\ PastWindow(r)
        /\ lastStep = "run"
        /\ IsDone(r)
        /\ esc[r].last_run_at = Some(clock)
        /\ pingLog[r]["dA"].stage = "CITY"
        /\ pingLog[r]["dA"].ping_count = 2


\* --------------------------------- claims on who writes the escalation state

\* a step of one of the views that act on a request
ViewStep ==
    \E r \in Requests :
        \/ \E d \in Donors, s \in ResponseStatuses : DonorRespond(r, d, s)
        \/ \E d \in Donors, s \in ResponseStatuses : QuickRespond(r, d, s)
        \/ GuestDonate(r)
        \/ \E d \in Donors : DonationCreate(r, d, 1, clock)
        \/ \E d \in Donors : VerifyDonation(r, d)
        \/ CancelRequest(r)
        \/ ApproveRequest(r)
        \/ RejectRequest(r)
        \/ \E e, k \in BOOLEAN : EditRequest(r, ReqCity, ReqBlood, 1, e, k)

\* C32: a donor response (full or quick), a guest response, the creation and
\* the verification of a donation, the cancellation, approval, rejection and
\* edit of a request leave every EscalationState as it is; a step that
\* changes an EscalationState is a run of the escalation command.
C32_OnlySchedulerWritesState ==
    [][/\ ViewStep => esc' = esc
       /\ esc' # esc => lastStep' = "run"]_vars

\* the state of the request stands at ORG, not done, as the last run left it,
\* while since that run dA accepted, dB recorded a donation, staff verified it
\* and the request became FULFILLED
C32_Witness ==
    \E r \in Requests :
        /\ esc[r].exists /\ esc[r].stage = "ORG" /\ ~esc[r].is_done
        /\ esc[r].last_run_at = Some(0) /\ esc[r].next_run_at = Some(StageMinutes)
        /\ response[r]["dA"] = "ACCEPTED"
        /\ donation[r]["dB"].status = "VERIFIED"
        /\ req[r].status = "FULFILLED"
        /\ lastStep = "other"


\* ------------------------------------ claims on the shape of a state row

LiveStages == {"CITY", "RADIUS_5", "RADIUS_10", "ORG", "LOOP"}

\* C33: in every reachable state every EscalationState row has is_done true
\* exactly when its stage is DONE; a done row has no next_run_at; a row that is
\* not done has a next_run_at and one of the stages CITY, RADIUS_5, RADIUS_10,
\* ORG, LOOP.
C33_StateRowWellFormed ==
    \A r \in Requests :
        esc[r].exists
        => /\ esc[r].is_done <=> esc[r].stage = "DONE"
           /\ esc[r].is_done => esc[r].next_run_at = Null
           /\ ~esc[r].is_done
              => esc[r].next_run_at # Null /\ esc[r].stage \in LiveStages

\* a run at the third minute has just ended the escalation of a request that
\* dA accepted: DONE, flagged, nothing scheduled
C33_Witness ==
    \E r \in Requests :
        /\ response[r]["dA"] = "ACCEPTED"
        /\ req[r].status = "IN_PROGRESS"
        /\ clock = 3
        /\ lastStep = "run"
        /\ esc[r].stage = "DONE" /\ esc[r].is_done /\ esc[r].next_run_at = Null
        /\ esc[r].last_run_at = Some(clock)


\* ------------------------------------------- claims on the LOOP branch

\* run k is between the two dispatches of its LOOP branch, and its CITY
\* dispatch pushed to donor d
PushedByCityDispatch(k, d) ==
    IF sched[k].pc = "loop_radius" /\ hist[sched[k].r][d].last_push_at # Null
    THEN /\ hist[sched[k].r][d].last_stage = "CITY"
         /\ Val(hist[sched[k].r][d].last_push_at) >= sched[k].now
    ELSE FALSE

\* the step is the RADIUS_10 dispatch of the LOOP branch of run k
RadiusStep(k) == sched[k].pc = "loop_radius" /\ sched'[k].pc = "idle"

\* the step leaves donor d of the request of run k without a push and with
\* the PingLog row it had
NotPingedAgain(k, d) ==
    /\ hist'[sched[k].r][d].pushes = hist[sched[k].r][d].pushes
    /\ pingLog'[sched[k].r][d] = pingLog[sched[k].r][d]

\* seconds since the last push to donor d for the request of run k
SecondsSinceCityPush(k, d) == (clock - Val(hist[sched[k].r][d].last_push_at)) * 60

\* C34 as stated: the RADIUS_10 dispatch of a LOOP run never pings a donor the
\* CITY dispatch of the same run has pinged, so a donor gets at most one push
\* and one count in a LOOP run.
C34_OnePingPerLoopTick ==
    [][\A k \in Runs, d \in Donors :
         (RadiusStep(k) /\ PushedByCityDispatch(k, d)) => NotPingedAgain(k, d)]_vars

\* C34, amended: the RADIUS_10 dispatch of a LOOP run does not ping a donor
\* the CITY dispatch of the same run pinged less than the cooldown before,
\* and each dispatch gives a donor at most one push and one count; so a donor
\* matched by both scopes gets at most one push and one count in a LOOP run
\* whose RADIUS_10 dispatch starts less than the cooldown after the CITY one.
C34_OnePingPerLoopTickWithinCooldown ==
    [][/\ \A k \in Runs, d \in Donors :
            (/\ RadiusStep(k)
             /\ PushedByCityDispatch(k, d)
             /\ SecondsSinceCityPush(k, d) < CooldownSeconds)
            => NotPingedAgain(k, d)
       /\ \A r \in Requests, d \in Donors :
            /\ hist'[r][d].pushes <= hist[r][d].pushes + 1
            /\ pingLog'[r][d].ping_count <= pingLog[r][d].ping_count + 1]_vars

\* a LOOP run has just ended: dA, whom both scopes match, was pinged by its
\* CITY dispatch, for the second time, and not by its RADIUS_10 dispatch,
\* which pinged dB
C34_Witness ==
    \E r \in Requests :
        /\ lastStep = "run"
        /\ esc[r].stage = "LOOP"
        /\ esc[r].last_run_at = Some(clock)
        /\ "dA" \in match_city(req[r], donation, clock)
        /\ "dA" \in match_radius(req[r], Radius10, donation, clock)
        /\ hist[r]["dA"].last_stage = "CITY"
        /\ hist[r]["dA"].last_push_at = Some(clock)
        /\ hist[r]["dA"].pushes = 2
        /\ pingLog[r]["dA"].ping_count = 2
        /\ hist[r]["dB"].last_stage = "RADIUS_10"
        /\ hist[r]["dB"].last_push_at = Some(clock)


\* ----------------------------------- claims on the dispatch at creation

\* the rows of a request nobody has been pinged for or has responded to
FreshRows == [logs |-> [d \in Donors |-> NoLog], h |-> [d \in Donors |-> NoHist], sent |-> 0]
NoResponses == [d \in Donors |-> "NONE"]

\* the donors a dispatch pushed to, given the rows before and after it
PingedBy(before, after) == { d \in Donors : after.h[d].pushes > before.h[d].pushes }

\* what push_ping_to_donors leaves when it runs on request r as it is now,
\* on the rows of r and on fresh rows
DispatchNow(r) == push_ping_to_donors(RowsOf(r), req[r], response[r], donation, clock)
DispatchFresh(r) == push_ping_to_donors(FreshRows, req[r], NoResponses, donation, clock)

\* the rows the first of the three scopes that sends a ping leaves
FirstSendingScope(city, five, ten) ==
    IF city.sent > 0 THEN city ELSE IF five.sent > 0 THEN five ELSE ten

\* the dispatch on fresh rows pings exactly the donors and counts each once
PingsOnce(res, donors) ==
    /\ PingedBy(FreshRows, res) = donors
    /\ \A d \in Donors :
         IF d \in donors
         THEN res.logs[d].exists /\ res.logs[d].ping_count = 1 /\ res.h[d].pushes = 1
         ELSE res.logs[d] = NoLog

\* C35: push_ping_to_donors on a request does what the dispatch of the first
\* scope among CITY, 5 km, 10 km that sends a ping does, and nothing for a
\* wider scope; run on fresh rows it pings exactly the donors of the combined
\* match, each ending with ping_count 1; and the posting of a request pings
\* exactly the donors of its combined match, each with ping_count 1.
C35_CreationDispatchIsCombinedMatch ==
    /\ [](\A r \in Requests :
            req[r].exists
            => /\ DispatchNow(r) = FirstSendingScope(StageDispatch(r, "CITY"),
                                                     StageDispatch(r, "RADIUS_5"),
                                                     StageDispatch(r, "RADIUS_10"))
               /\ PingsOnce(DispatchFresh(r), match_city_then_radius(req[r], donation, clock)))
    /\ [][\A r \in Requests :
            (~req[r].exists /\ req'[r].exists)
            => \A d \in Donors :
                 IF d \in match_city_then_radius(req'[r], donation, clock)
                 THEN pingLog'[r][d].exists /\ pingLog'[r][d].ping_count = 1
                      /\ hist'[r][d].pushes = 1
                 ELSE pingLog'[r][d] = NoLog /\ hist'[r][d].pushes = 0]_vars

\* a request has just been posted: its combined match is dA of its city and
\* not dB, who is within 5 km of where dA is; dA has the one ping of the CITY
\* scope, dB none
C35_Witness ==
    \E r \in Requests :
        /\ req[r].exists /\ req[r].created_at = clock
        /\ ~esc[r].exists
        /\ profile["dB"].city = << "Patan" >>
        /\ profile["dB"].pos = Some(Radius5)
        /\ match_city_then_radius(req[r], donation, clock) = {"dA"}
        /\ pingLog[r]["dA"] = [exists |-> TRUE, stage |-> "CITY",
                               last_ping_at |-> Some(clock), ping_count |-> 1]
        /\ pingLog[r]["dB"] = NoLog

====
